---- MODULE Spec2Model ----
(***************************************************************************)
(* A model of the pixel-canvas / chat backend (package lib).               *)
(*                                                                         *)
(* The repository holds several generations of the same handlers: the      *)
(* plain JSON handlers of backend.go, the bounds-checked JSON handlers,    *)
(* the pooled-connection handlers, the bare-array / compressed-JSON /      *)
(* binary pixel decoders and the detached (goroutine) writers.  Every      *)
(* generation is an action here, and all of them work on the same two      *)
(* key-value databases, "/canvas" and "/chat".                             *)
(*                                                                         *)
(* Text is modelled as a sequence of one-character strings, so that        *)
(* fmt.Sprintf, fmt.Sscanf, the prefix listing of the store and the        *)
(* "#%06x" rendering are computed character by character.                  *)
(***************************************************************************)
EXTENDS Integers, Sequences, FiniteSets, TLC

VARIABLES
    canvas,     \* the "/canvas" database: key -> stored JSON document
    chat,       \* the "/chat" database: key -> stored JSON document
    pool,       \* the pooled handles: [dbInit, canvasDB, chatDB]
    tasks,      \* detached writers (goroutines) started and not yet run
    last,       \* what the last step (a handler invocation, a writer's step) did
    ningest,    \* number of ingestion events delivered so far
    inbox       \* the payload waiting for the decoder under test (SpecDecode)

vars == <<canvas, chat, pool, tasks, last, ningest, inbox>>

(***************************************************************************)
(* Bounds of the model.                                                    *)
(***************************************************************************)
MaxIngest == 2        \* ingestion events delivered in one behaviour
MaxFaults == 1        \* store calls that fail within one handler invocation
MaxChat == 3          \* chat events delivered in one behaviour of SpecChat

(***************************************************************************)
(* Program constants.                                                      *)
(***************************************************************************)
CanvasWidth == 90
CanvasHeight == 90

White == <<"#", "f", "f", "f", "f", "f", "f">>
DefaultRoom == <<"d", "e", "f", "a", "u", "l", "t">>
Unknown == "unknown"

(***************************************************************************)
(* Text: %d formatting and scanning, key construction.                     *)
(***************************************************************************)
DecDigits == <<"0", "1", "2", "3", "4", "5", "6", "7", "8", "9">>
HexDigits == <<"0", "1", "2", "3", "4", "5", "6", "7", "8", "9",
               "a", "b", "c", "d", "e", "f">>

IsDigit(c) == \E d \in 1..10 : DecDigits[d] = c
DigitVal(c) == (CHOOSE d \in 1..10 : DecDigits[d] = c) - 1

RECURSIVE FormatNat(_)
FormatNat(n) ==
    IF n < 10 THEN <<DecDigits[n + 1]>>
    ELSE FormatNat(n \div 10) \o <<DecDigits[(n % 10) + 1]>>

\* the verb %d of fmt.Sprintf
FormatInt(n) == IF n < 0 THEN <<"-">> \o FormatNat(0 - n) ELSE FormatNat(n)

\* fmt.Sprintf("/%s/", room)
RoomPrefix(room) == <<"/">> \o room \o <<"/">>

\* a writer that formats the key as "/{room}/{y}:{x}"
PixelKeySwapped(room, x, y) == RoomPrefix(room) \o FormatInt(y) \o <<":">> \o FormatInt(x)

\* fmt.Sprintf("/%s/%d:%d", room, pixel.X, pixel.Y)
PixelKey(room, x, y) == RoomPrefix(room) \o FormatInt(x) \o <<":">> \o FormatInt(y)

HasPrefix(s, p) == Len(s) >= Len(p) /\ SubSeq(s, 1, Len(p)) = p

\* db.List(prefix): the keys of the database that start with prefix
List(db, prefix) == {k \in DOMAIN db : HasPrefix(k, prefix)}

RECURSIVE DigitEnd(_, _)
\* first position at or after i of s that holds no decimal digit
DigitEnd(s, i) == IF i <= Len(s) /\ IsDigit(s[i]) THEN DigitEnd(s, i + 1) ELSE i

RECURSIVE ParseNat(_, _, _)
ParseNat(s, i, e) == IF e <= i THEN 0 ELSE ParseNat(s, i, e - 1) * 10 + DigitVal(s[e - 1])

\* the verb %d of fmt.Sscanf at position i: an optional sign, then at least one digit
ScanInt(s, i) ==
    LET signed == i <= Len(s) /\ s[i] \in {"-", "+"}
        j == IF signed THEN i + 1 ELSE i
        e == DigitEnd(s, j)
        v == ParseNat(s, j, e)
    IN  IF e = j THEN [ok |-> FALSE, val |-> 0, next |-> j]
        ELSE [ok |-> TRUE, val |-> IF signed /\ s[i] = "-" THEN 0 - v ELSE v, next |-> e]

\* fmt.Sscanf(coordPart, "%d:%d", &x, &y): n counts the verbs filled; input left
\* over after the second number is not an error
Sscanf2(s) ==
    LET a == ScanInt(s, 1)
        colon == a.ok /\ a.next <= Len(s) /\ s[a.next] = ":"
        b == IF colon THEN ScanInt(s, a.next + 1) ELSE [ok |-> FALSE, val |-> 0, next |-> 0]
    IN  IF ~a.ok THEN [n |-> 0, err |-> TRUE, x |-> 0, y |-> 0]
        ELSE IF ~b.ok THEN [n |-> 1, err |-> TRUE, x |-> a.val, y |-> 0]
        ELSE [n |-> 2, err |-> FALSE, x |-> a.val, y |-> b.val]

(***************************************************************************)
(* Machine integers.  A 32-bit field does not fit the model checker's own  *)
(* integers, so a wide value is kept as two 16-bit halves:                 *)
(* [hi, lo] stands for hi * 65536 + lo, with 0 <= lo < 65536 and hi        *)
(* carrying the sign.  int is 32 bits wide on the wasm32 build and 64 bits *)
(* wide elsewhere; the width is a parameter of every binary decoder.       *)
(***************************************************************************)
IntWidths == {32, 64}

\* uint16(data[o]) | uint16(data[o+1])<<8, o counted from 0
U16LE(data, o) == data[o + 1] + 256 * data[o + 2]

\* uint32(data[o]) | uint32(data[o+1])<<8 | uint32(data[o+2])<<16 | uint32(data[o+3])<<24
U32LE(data, o) == [hi |-> U16LE(data, o + 2), lo |-> U16LE(data, o)]

\* int(u) of a uint32: values from 2^31 on turn negative when int has 32 bits
ToInt(u, bits) == IF bits = 32 /\ u.hi >= 32768 THEN [hi |-> u.hi - 65536, lo |-> u.lo] ELSE u

\* n + k in int arithmetic, for a small k >= 0: the sum wraps when int has 32 bits
Plus(n, k, bits) ==
    LET lo == n.lo + k
        hi == n.hi + (lo \div 65536)
    IN  [hi |-> IF bits = 32 /\ hi > 32767 THEN hi - 65536 ELSE hi, lo |-> lo % 65536]

IsNeg(n) == n.hi < 0

\* n <= k, for a small k >= 0
Leq(n, k) == n.hi < 0 \/ (n.hi = 0 /\ n.lo <= k)

\* v & 0xFFFFFF
Low24(v) == (v.hi % 256) * 65536 + v.lo

(***************************************************************************)
(* Colors: fmt.Sprintf("#%06x", colorValue&0xFFFFFF).                      *)
(***************************************************************************)
RECURSIVE FormatHex(_)
\* the verb %x: lowercase hexadecimal without leading zeros
FormatHex(n) ==
    IF n < 16 THEN <<HexDigits[n + 1]>>
    ELSE FormatHex(n \div 16) \o <<HexDigits[(n % 16) + 1]>>

RECURSIVE PadZero(_, _)
\* the flag 0 with a width: zeros on the left up to the width, never a cut
PadZero(s, width) == IF Len(s) >= width THEN s ELSE PadZero(<<"0">> \o s, width)

\* the rendering "#%x": no padding
ColorOfUnpadded(colorValue) == <<"#">> \o FormatHex(Low24(colorValue))

ColorOf(colorValue) == <<"#">> \o PadZero(FormatHex(Low24(colorValue)), 6)

(***************************************************************************)
(* The record types.                                                       *)
(***************************************************************************)
Pixel(x, y, color, userId, username) ==
    [x |-> x, y |-> y, color |-> color, userId |-> userId, username |-> username]

\* the coordinate test of the validating handlers
InBounds(x, y) == x >= 0 /\ x < CanvasWidth /\ y >= 0 /\ y < CanvasHeight

\* validPixels: the pixels of the batch that pass the coordinate test, in order
ValidPixels(pixels) == SelectSeq(pixels, LAMBDA p : InBounds(p.x, p.y))

(***************************************************************************)
(* The fixed binary pixel layout (synchronous handler).                    *)
(* Result: ret 0 (decoded), 1 (rejected) or -1 (a run-time panic: the      *)
(* handler returns nothing).                                               *)
(***************************************************************************)
\* make([]Pixel, 0, n) panics for a negative n, and on the 32-bit build for
\* an n whose 32-byte elements exceed the address space (n >= 2^26)
MakePanics(n, bits) == IsNeg(n) \/ (bits = 32 /\ n.hi >= 1024)

RECURSIVE ReadPixels(_, _, _, _, _)
\* for i := 0; i < pixelCount && offset+8 <= len(data); i++ { ... }
ReadPixels(data, i, pixelCount, offset, acc) ==
    IF ~Leq(pixelCount, i) /\ offset + 8 <= Len(data)
    THEN ReadPixels(data, i + 1, pixelCount, offset + 8,
                    Append(acc, Pixel(U16LE(data, offset), U16LE(data, offset + 2),
                                      ColorOf(U32LE(data, offset + 4)), Unknown, Unknown)))
    ELSE acc

\* a handler that returns 0 for a payload it could not decode
Accepted == [ret |-> 0, room |-> DefaultRoom, pixels |-> <<>>]

\* return 1 before anything is opened
Rejected == [ret |-> 1, room |-> DefaultRoom, pixels |-> <<>>]
Panicked == [ret |-> -1, room |-> DefaultRoom, pixels |-> <<>>]

DecodeBinary(data, bits) ==
    IF Len(data) >= 4
    THEN LET pixelCount == ToInt(U32LE(data, 0), bits)
         IN  IF MakePanics(pixelCount, bits) THEN Panicked
             ELSE [ret |-> 0, room |-> DefaultRoom,
                   pixels |-> ReadPixels(data, 0, pixelCount, 4, <<>>)]
    ELSE Rejected

(***************************************************************************)
(* The framed binary pixel layout (detached handler): batchIdLength,       *)
(* batchId, pixelCount, records.                                           *)
(***************************************************************************)
DecodeFramed(data, bits) ==
    IF Len(data) >= 4
    THEN LET batchIdLength == ToInt(U32LE(data, 0), bits)
             offset == Plus(batchIdLength, 4, bits)
         IN  IF Leq(offset, Len(data))
             THEN IF Leq(Plus(offset, 4, bits), Len(data))
                  THEN IF IsNeg(offset) THEN Panicked      \* data[offset], offset < 0
                       ELSE LET pixelCount == ToInt(U32LE(data, offset.lo), bits)
                            IN  IF MakePanics(pixelCount, bits) THEN Panicked
                                ELSE [ret |-> 0, room |-> DefaultRoom,
                                      pixels |-> ReadPixels(data, 0, pixelCount,
                                                            offset.lo + 4, <<>>)]
                  ELSE Rejected
             ELSE Rejected
    ELSE Rejected

(***************************************************************************)
(* JSON payloads, as parsed documents:                                     *)
(*   [t |-> "bad"]                        not JSON at all                  *)
(*   [t |-> "arr", px]                    a bare array of pixel objects    *)
(*   [t |-> "obj", px, room]              {pixels, room, ...}              *)
(*   [t |-> "cmp", p, r, s]               {p: [[x, y, color], ...], r, s}  *)
(* A JSON number is kept in tenths (x10 = 25 is the literal 2.5), a pixel  *)
(* object is [x10, y10, color, userId, username], an element of a triple   *)
(* is [k |-> "num", v10] or [k |-> "str", s].                              *)
(***************************************************************************)
IsObject(doc) == doc.t \in {"obj", "cmp"}

\* json.Unmarshal of a number into an int field: only an integer literal fits
FitsInt(v10) == v10 % 10 = 0

\* int(x) of a float64: the fraction is cut towards zero
TruncInt(v10) == IF v10 >= 0 THEN v10 \div 10 ELSE 0 - ((0 - v10) \div 10)

PixelsFit(px) == \A i \in DOMAIN px : FitsInt(px[i].x10) /\ FitsInt(px[i].y10)

\* json.Unmarshal into []Pixel / the Pixels field
UnmarshalPixels(px) ==
    [i \in DOMAIN px |->
        Pixel(px[i].x10 \div 10, px[i].y10 \div 10, px[i].color, px[i].userId, px[i].username)]

RoomOrDefault(room) == IF room = <<>> THEN DefaultRoom ELSE room

\* var pixelBatch struct{...}; json.Unmarshal(data, &pixelBatch); room default
DecodeObject(doc) ==
    IF ~IsObject(doc) THEN Rejected
    ELSE IF doc.t = "cmp" THEN [ret |-> 0, room |-> DefaultRoom, pixels |-> <<>>]
    ELSE IF ~PixelsFit(doc.px) THEN Rejected
    ELSE [ret |-> 0, room |-> RoomOrDefault(doc.room), pixels |-> UnmarshalPixels(doc.px)]

\* the bare array first (accepted when it decodes and is not empty), then the object
DecodeArrayOrObject(doc) ==
    IF doc.t = "arr" /\ PixelsFit(doc.px) /\ Len(doc.px) > 0
    THEN [ret |-> 0, room |-> DefaultRoom, pixels |-> UnmarshalPixels(doc.px)]
    ELSE DecodeObject(doc)

\* the type assertions p[0].(float64), p[1].(float64), p[2].(string) on a triple
TripleOk(p) == Len(p) >= 3 /\ p[1].k = "num" /\ p[2].k = "num" /\ p[3].k = "str"

RECURSIVE ConvertTriplesYX(_, _)
\* a conversion that reads p[1] as x and p[0] as y
ConvertTriplesYX(ps, s) ==
    IF ps = <<>> THEN <<>>
    ELSE LET p == Head(ps)
         IN  (IF TripleOk(p)
              THEN <<Pixel(TruncInt(p[2].v10), TruncInt(p[1].v10), p[3].s, s, Unknown)>>
              ELSE <<>>) \o ConvertTriplesYX(Tail(ps), s)

RECURSIVE ConvertTriples(_, _)
ConvertTriples(ps, s) ==
    IF ps = <<>> THEN <<>>
    ELSE LET p == Head(ps)
         IN  (IF TripleOk(p)
              THEN <<Pixel(TruncInt(p[1].v10), TruncInt(p[2].v10), p[3].s, s, Unknown)>>
              ELSE <<>>) \o ConvertTriples(Tail(ps), s)

\* the compressed object first (accepted when it has at least one triple), then the object
DecodeCompressedOrObject(doc) ==
    IF doc.t = "cmp" /\ Len(doc.p) > 0
    THEN [ret |-> 0, room |-> RoomOrDefault(doc.r), pixels |-> ConvertTriples(doc.p, doc.s)]
    ELSE DecodeObject(doc)

(***************************************************************************)
(* Stored documents: json.Marshal(pixel) and json.Unmarshal(pixelData).    *)
(***************************************************************************)
MarshalPixel(pixel) ==
    [t |-> "pixel", x10 |-> pixel.x * 10, y10 |-> pixel.y * 10, color |-> pixel.color,
     userId |-> pixel.userId, username |-> pixel.username]

UnmarshalPixel(d) ==
    IF d.t = "pixel" /\ FitsInt(d.x10) /\ FitsInt(d.y10)
    THEN [ok |-> TRUE,
          pixel |-> Pixel(d.x10 \div 10, d.y10 \div 10, d.color, d.userId, d.username)]
    ELSE [ok |-> FALSE, pixel |-> Pixel(0, 0, <<>>, "", "")]

\* a Put that keeps the color of the pixel record it finds under the key
PutMerged(db, key, value) ==
    (key :> IF key \in DOMAIN db /\ value.t = "pixel"
            THEN [value EXCEPT !.color = db[key].color]
            ELSE value) @@ db

\* db.Put(key, value): the value replaces whatever the key held
Put(db, key, value) == (key :> value) @@ db

\* a clear that empties the database
DropDatabase(db, keys) == <<>>

\* db.Delete(key) for each key of a set
DeleteAll(db, keys) == [k \in (DOMAIN db) \ keys |-> db[k]]

(***************************************************************************)
(* What a step leaves in `last`.                                           *)
(*   op      "pixel", "task", "getCanvas", "clear", "chat", "getMessages"  *)
(*   v       the generation of the handler                                 *)
(*   ret     the status returned to the dispatcher, -1 after a panic       *)
(*   code    the HTTP status written with h.Return, 0 when none            *)
(*   pixels  the decoded batch, before validation                          *)
(*   nput    the number of db.Put calls made; 1 for a db.Delete step of a  *)
(*           clearData loop                                                *)
(*   fault   the store call that failed in this invocation, if any         *)
(*   grid    the canvas written by sendJSONResponse                        *)
(*   before  the selected database as clearData found it                   *)
(*   failed  the keys whose db.Get or db.Delete failed in this call, for   *)
(*           a pixel batch the positions of the pixels whose db.Put failed *)
(*   handle  what getCanvasDB or getChatDB returned as its database        *)
(***************************************************************************)
NoGrid == [h |-> 0, w |-> 0, bg |-> <<>>, cells |-> <<>>]

Blank ==
    [op |-> "none", v |-> "none", room |-> <<>>, ret |-> 0, code |-> 0, pixels |-> <<>>,
     nput |-> 0, fault |-> "none", body |-> "none", grid |-> NoGrid, msgs |-> <<>>,
     before |-> <<>>, input |-> <<>>, failed |-> {}, handle |-> "none"]

Param(v) == [present |-> TRUE, v |-> v]
NoParam == [present |-> FALSE, v |-> <<>>]

FaultSets(S) == {F \in SUBSET S : Cardinality(F) <= MaxFaults}

(***************************************************************************)
(* The pooled handles: initDatabases, getCanvasDB, getChatDB.              *)
(***************************************************************************)
\* what a call of getCanvasDB or getChatDB can do to the pool, and whether it
\* returns status 0
PoolOutcomes(p) ==
    IF p.dbInit THEN {[pool |-> p, ok |-> TRUE]}
    ELSE {[pool |-> [dbInit |-> FALSE, canvasDB |-> "nil", chatDB |-> p.chatDB], ok |-> FALSE],
          [pool |-> [dbInit |-> FALSE, canvasDB |-> "open", chatDB |-> "nil"], ok |-> FALSE],
          [pool |-> [dbInit |-> TRUE, canvasDB |-> "open", chatDB |-> "open"], ok |-> TRUE]}

\* database.New(path) called by the handler itself: it leaves the pool alone
DirectOutcomes(p) == {[pool |-> p, ok |-> TRUE], [pool |-> p, ok |-> FALSE]}

Pooled(v) == v \in {"array", "binary", "compressed", "framed", "pooled"}

OpenOutcomes(v, p) == IF Pooled(v) THEN PoolOutcomes(p) ELSE DirectOutcomes(p)

(***************************************************************************)
(* onPixelUpdate.                                                          *)
(***************************************************************************)
\* a loop over the pixels that ends at the first failed Put
RECURSIVE PutUntilFailure(_, _, _, _, _)
PutUntilFailure(db, room, pixels, i, failed) ==
    IF i > Len(pixels) \/ i \in failed THEN db
    ELSE PutUntilFailure(Put(db, PixelKey(room, pixels[i].x, pixels[i].y),
                             MarshalPixel(pixels[i])),
                         room, pixels, i + 1, failed)

RECURSIVE PutAll(_, _, _, _, _)
\* for _, pixel := range pixels { db.Put(key, json.Marshal(pixel)) }, the Puts
\* numbered in `failed` returning an error
PutAll(db, room, pixels, i, failed) ==
    IF i > Len(pixels) THEN db
    ELSE PutAll(IF i \in failed THEN db
                ELSE Put(db, PixelKey(room, pixels[i].x, pixels[i].y), MarshalPixel(pixels[i])),
                room, pixels, i + 1, failed)

\* the pixels a generation writes: backend.go writes the batch as decoded
Writable(v, pixels) == IF v = "backend" THEN pixels ELSE ValidPixels(pixels)

Decode(v, payload, bits) ==
    CASE v \in {"backend", "checked"} -> DecodeObject(payload)
      [] v = "array" -> DecodeArrayOrObject(payload)
      [] v = "compressed" -> DecodeCompressedOrObject(payload)
      [] v = "binary" -> DecodeBinary(payload, bits)
      [] v = "framed" -> DecodeFramed(payload, bits)

\* the synchronous generations: decode, open the database, write, return 0
OnPixelUpdateSync(v, payload, bits) ==
    LET d == Decode(v, payload, bits)
        res == [Blank EXCEPT !.op = "pixel", !.v = v, !.room = d.room, !.pixels = d.pixels,
                             !.ret = d.ret, !.input = payload]
    IN  /\ ningest < MaxIngest
        /\ ningest' = ningest + 1
        /\ UNCHANGED <<chat, tasks, inbox>>
        /\ IF d.ret # 0
           THEN /\ last' = res
                /\ UNCHANGED <<canvas, pool>>
           ELSE \E o \in OpenOutcomes(v, pool) :
                    /\ pool' = o.pool
                    /\ IF ~o.ok
                       THEN /\ last' = [res EXCEPT !.ret = 1, !.fault = "open"]
                            /\ UNCHANGED canvas
                       ELSE LET w == Writable(v, d.pixels)
                            IN  \E failed \in FaultSets(DOMAIN w) :
                                    /\ canvas' = PutAll(canvas, d.room, w, 1, failed)
                                    /\ last' = [res EXCEPT !.nput = Len(w), !.failed = failed,
                                                  !.fault = IF failed = {} THEN "none" ELSE "put"]

\* the detached generation: decode, validate, start the writer, return 0
OnPixelUpdateDetached(payload, bits) ==
    LET d == DecodeFramed(payload, bits)
        res == [Blank EXCEPT !.op = "pixel", !.v = "framed", !.room = d.room,
                             !.pixels = d.pixels, !.ret = d.ret, !.input = payload]
    IN  /\ ningest < MaxIngest
        /\ ningest' = ningest + 1
        /\ last' = res
        /\ UNCHANGED <<canvas, chat, pool, inbox>>
        /\ tasks' = IF d.ret = 0
                    THEN Append(tasks, [kind |-> "pixels", room |-> d.room, opened |-> FALSE,
                                        todo |-> ValidPixels(d.pixels)])
                    ELSE tasks

Remove(seq, i) == SubSeq(seq, 1, i - 1) \o SubSeq(seq, i + 1, Len(seq))

\* a detached writer that ends after its first Put
PixelWriterOnce(i) ==
    LET t == tasks[i]
        res == [Blank EXCEPT !.op = "task", !.v = "framed", !.room = t.room]
    IN  /\ t.kind = "pixels"
        /\ UNCHANGED <<chat, ningest, inbox>>
        /\ IF ~t.opened
           THEN \E o \in PoolOutcomes(pool) :
                    /\ pool' = o.pool
                    /\ UNCHANGED canvas
                    /\ last' = [res EXCEPT !.fault = IF o.ok THEN "none" ELSE "open"]
                    /\ tasks' = IF o.ok /\ t.todo # <<>>
                                THEN [tasks EXCEPT ![i].opened = TRUE]
                                ELSE Remove(tasks, i)
           ELSE \E ok \in BOOLEAN :
                    /\ UNCHANGED pool
                    /\ canvas' = IF ok THEN PutAll(canvas, t.room, <<Head(t.todo)>>, 1, {})
                                 ELSE canvas
                    /\ last' = [res EXCEPT !.pixels = <<Head(t.todo)>>, !.nput = 1,
                                           !.fault = IF ok THEN "none" ELSE "put"]
                    /\ tasks' = Remove(tasks, i)

\* one step of a detached pixel writer: getCanvasDB first, then one Put per step
PixelWriterStep(i) ==
    LET t == tasks[i]
        res == [Blank EXCEPT !.op = "task", !.v = "framed", !.room = t.room]
    IN  /\ t.kind = "pixels"
        /\ UNCHANGED <<chat, ningest, inbox>>
        /\ IF ~t.opened
           THEN \E o \in PoolOutcomes(pool) :
                    /\ pool' = o.pool
                    /\ UNCHANGED canvas
                    /\ last' = [res EXCEPT !.fault = IF o.ok THEN "none" ELSE "open"]
                    /\ tasks' = IF o.ok /\ t.todo # <<>>
                                THEN [tasks EXCEPT ![i].opened = TRUE]
                                ELSE Remove(tasks, i)
           ELSE \E ok \in BOOLEAN :
                    /\ UNCHANGED pool
                    /\ canvas' = IF ok THEN PutAll(canvas, t.room, <<Head(t.todo)>>, 1, {})
                                 ELSE canvas
                    /\ last' = [res EXCEPT !.pixels = <<Head(t.todo)>>, !.nput = 1,
                                           !.fault = IF ok THEN "none" ELSE "put"]
                    /\ tasks' = IF Len(t.todo) > 1
                                THEN [tasks EXCEPT ![i].todo = Tail(t.todo)]
                                ELSE Remove(tasks, i)

(***************************************************************************)
(* getCanvas.  The 90 x 90 array is kept as its dimensions, the color it   *)
(* was seeded with and the cells assigned afterwards, keyed <<y, x>> as in *)
(* canvas[y][x]; an assignment outside the dimensions is an index panic.   *)
(***************************************************************************)
SeedGrid == [h |-> CanvasHeight, w |-> CanvasWidth, bg |-> White, cells |-> <<>>]

\* canvas[y][x] of a response
Cell(grid, x, y) == IF <<y, x>> \in DOMAIN grid.cells THEN grid.cells[<<y, x>>] ELSE grid.bg

\* coordPart := key[len(roomPrefix):]
CoordPart(key, room) == SubSeq(key, Len(RoomPrefix(room)) + 1, Len(key))

\* the coordinate test before db.Get; backend.go has none
BoundsChecked(v) == v # "backend"

\* the listed keys for which the loop reaches canvas[y][x] = pixel.Color, the
\* db.Get of the keys in failedGets returning an error
Assigned(v, db, room, failedGets) ==
    {k \in List(db, RoomPrefix(room)) :
        /\ Len(k) > Len(RoomPrefix(room))
        /\ LET sc == Sscanf2(CoordPart(k, room))
           IN  /\ sc.n = 2 /\ ~sc.err
               /\ BoundsChecked(v) => InBounds(sc.x, sc.y)
        /\ k \notin failedGets
        /\ UnmarshalPixel(db[k]).ok}

RowCol(k, room) == LET sc == Sscanf2(CoordPart(k, room)) IN <<sc.y, sc.x>>

\* some assignment indexes outside the array
IndexPanics(keys, room) ==
    \E k \in keys : ~InBounds(RowCol(k, room)[2], RowCol(k, room)[1])

\* the arrays the loop can leave: db.List promises no order, so where several
\* keys address one cell any of them may be the last one assigned
Overlays(db, room, keys) ==
    LET rc == {RowCol(k, room) : k \in keys}
    IN  {[c \in rc |-> UnmarshalPixel(db[f[c]]).pixel.color] :
            f \in {g \in [rc -> keys] : \A c \in rc : RowCol(g[c], room) = c}}

\* a getCanvas that answers every open failure with the seeded grid
FailOpenAlways(v) == TRUE

\* on a failure of database.New: the seeded grid (TRUE) or handleHTTPError 500
FailOpen(v) == v = "failopen"

\* a getRoomParamRequired that falls back to "default" as getRoomParam does
GetRoomParamLenient(rp) == [room |-> IF rp.present THEN rp.v ELSE DefaultRoom, code |-> 0]

\* getRoomParamRequired: code 1, after h.Return(400), when the query has no room
GetRoomParamRequired(rp) == [room |-> rp.v, code |-> IF rp.present THEN 0 ELSE 1]

GetCanvas(v, rp) ==
    LET req == GetRoomParamRequired(rp)
        res == [Blank EXCEPT !.op = "getCanvas", !.v = v, !.room = req.room,
                             !.input = [room |-> rp]]
        white == [res EXCEPT !.code = 200, !.body = "grid", !.grid = SeedGrid]
    IN  /\ UNCHANGED <<canvas, chat, tasks, ningest, inbox>>
        /\ IF req.code # 0
           THEN /\ last' = [res EXCEPT !.ret = 1, !.code = 400, !.body = "error"]
                /\ UNCHANGED pool
           ELSE \E o \in OpenOutcomes(v, pool) :
                    /\ pool' = o.pool
                    /\ IF ~o.ok
                       THEN last' = IF FailOpen(v) THEN [white EXCEPT !.fault = "open"]
                                    ELSE [res EXCEPT !.ret = 1, !.code = 500, !.body = "error",
                                                     !.fault = "open"]
                       ELSE \/ last' = [white EXCEPT !.fault = "list"]
                            \/ \E failedGets \in FaultSets(List(canvas, RoomPrefix(req.room))) :
                                   LET keys == Assigned(v, canvas, req.room, failedGets)
                                       fault == IF failedGets = {} THEN "none" ELSE "get"
                                   IN  IF IndexPanics(keys, req.room)
                                       THEN last' = [res EXCEPT !.ret = -1, !.fault = fault,
                                                                !.failed = failedGets]
                                       ELSE \E cells \in Overlays(canvas, req.room, keys) :
                                                last' = [white EXCEPT !.fault = fault,
                                                                      !.failed = failedGets,
                                                                      !.grid.cells = cells]

(***************************************************************************)
(* clearData.                                                              *)
(***************************************************************************)
\* getRoomParam: the room parameter, "default" when it is absent
GetRoomParam(rp) == IF rp.present THEN rp.v ELSE DefaultRoom

\* clearData's check of the type parameter: it must be given and name a database
ValidType(tp) == tp.present /\ tp.v \in {"canvas", "chat"}

ClearData(tp, rp) ==
    LET room == GetRoomParam(rp)
        res == [Blank EXCEPT !.op = "clear", !.v = tp.v, !.room = room,
                             !.input = [type |-> tp, room |-> rp]]
        bad == [res EXCEPT !.ret = 1, !.code = 400, !.body = "error"]
    IN  /\ UNCHANGED <<pool, tasks, ningest, inbox>>
        /\ IF ~ValidType(tp)
           THEN last' = bad /\ UNCHANGED <<canvas, chat>>
           ELSE LET db == IF tp.v = "canvas" THEN canvas ELSE chat
                    keys == List(db, RoomPrefix(room))
                    done == [res EXCEPT !.code = 200, !.body = "text", !.before = db]
                IN  \/ /\ last' = [res EXCEPT !.ret = 1, !.code = 500, !.body = "error",
                                              !.fault = "open"]
                       /\ UNCHANGED <<canvas, chat>>
                    \/ /\ last' = [done EXCEPT !.fault = "list"]
                       /\ UNCHANGED <<canvas, chat>>
                    \/ \E failed \in FaultSets(keys) :
                          /\ last' = [done EXCEPT !.failed = failed,
                                                   !.fault = IF failed = {} THEN "none"
                                                             ELSE "delete"]
                          /\ IF tp.v = "canvas"
                             THEN canvas' = DeleteAll(canvas, keys \ failed) /\ UNCHANGED chat
                             ELSE chat' = DeleteAll(chat, keys \ failed) /\ UNCHANGED canvas

(***************************************************************************)
(* Chat: onChatMessages (JSON generations) and getMessages.                *)
(* A chat payload is [t |-> "chat", id, userId, username, message, ts10,   *)
(* room], the timestamp in tenths like every JSON number here.             *)
(***************************************************************************)
ChatMessage(id, userId, username, message, timestamp) ==
    [id |-> id, userId |-> userId, username |-> username, message |-> message,
     timestamp |-> timestamp]

NoMessage == ChatMessage(<<>>, "", "", "", 0)

\* json.Marshal(message.ChatMessage)
MarshalMessage(m) ==
    [t |-> "msg", id |-> m.id, userId |-> m.userId, username |-> m.username,
     message |-> m.message, ts10 |-> m.timestamp * 10]

\* json.Unmarshal(messageData, &message)
UnmarshalMessage(d) ==
    IF d.t = "msg" /\ FitsInt(d.ts10)
    THEN [ok |-> TRUE,
          message |-> ChatMessage(d.id, d.userId, d.username, d.message, d.ts10 \div 10)]
    ELSE [ok |-> FALSE, message |-> NoMessage]

\* the generations of onChatMessages: backend.go, the direct-open handlers,
\* the pooled handlers, and the pooled handler that decodes a plain ChatMessage
ChatGenerations == {"backend", "checked", "pooled", "plain"}

\* json.Unmarshal(data, &message) and the choice of the room
DecodeChat(v, doc) ==
    IF doc.t # "chat" \/ ~FitsInt(doc.ts10)
    THEN [ret |-> 1, room |-> DefaultRoom, message |-> NoMessage]
    ELSE [ret |-> 0,
          room |-> IF v = "plain" THEN DefaultRoom ELSE RoomOrDefault(doc.room),
          message |-> ChatMessage(doc.id, doc.userId, doc.username, doc.message,
                                  doc.ts10 \div 10)]

\* "/%s/%d" of the timestamp in backend.go, "/%s/%s" of the message id elsewhere
ChatKey(v, room, m) ==
    RoomPrefix(room) \o (IF v = "backend" THEN FormatInt(m.timestamp) ELSE m.id)

ChatOpenOutcomes(v, p) ==
    IF v \in {"pooled", "plain"} THEN PoolOutcomes(p) ELSE DirectOutcomes(p)

OnChatMessages(v, doc) ==
    LET d == DecodeChat(v, doc)
        res == [Blank EXCEPT !.op = "chat", !.v = v, !.room = d.room, !.ret = d.ret,
                             !.input = doc,
                             !.msgs = IF d.ret = 0 THEN <<d.message>> ELSE <<>>]
    IN  /\ ningest < MaxChat
        /\ ningest' = ningest + 1
        /\ UNCHANGED <<canvas, tasks, inbox>>
        /\ IF d.ret # 0
           THEN /\ last' = res
                /\ UNCHANGED <<chat, pool>>
           ELSE \E o \in ChatOpenOutcomes(v, pool) :
                    /\ pool' = o.pool
                    /\ IF ~o.ok
                       THEN /\ last' = [res EXCEPT !.ret = 1, !.fault = "open"]
                            /\ UNCHANGED chat
                       ELSE \E failed \in FaultSets({1}) :
                               /\ chat' = IF failed = {} 
                                          THEN Put(chat, ChatKey(v, d.room, d.message),
                                                   MarshalMessage(d.message))
                                          ELSE chat
                               /\ last' = [res EXCEPT !.nput = 1,
                                             !.fault = IF failed = {} THEN "none" ELSE "put"]

\* the orders in which db.List can hand over a set of keys
Orderings(S) ==
    {f \in [1..Cardinality(S) -> S] : \A i, j \in 1..Cardinality(S) : f[i] = f[j] => i = j}

\* messages[i].Timestamp < messages[j].Timestamp
Less(a, b) == a.timestamp < b.timestamp

\* getMessages without the call of sort.Slice
Unsorted(messages) == {messages}

\* sort.Slice(messages, less): some rearrangement of the slice in which no
\* element is less than an earlier one; the sort is not stable
SortSlice(messages) ==
    {[i \in DOMAIN messages |-> messages[p[i]]] :
        p \in {q \in Orderings(DOMAIN messages) :
                  \A i, j \in DOMAIN messages : i < j => ~Less(messages[q[j]], messages[q[i]])}}

\* the slices getMessages can hold after its loop over the keys and the sort,
\* db.List handing the keys over in any order
Collected(db, keys) ==
    UNION {SortSlice([i \in DOMAIN order |-> UnmarshalMessage(db[order[i]]).message]) :
              order \in Orderings({k \in keys : UnmarshalMessage(db[k]).ok})}

\* json.Marshal(messages) in sendJSONResponse: a slice nothing was appended to
\* is nil and is written as null, never as []
MarshalMessages(messages) == IF messages = <<>> THEN "null" ELSE "array"

\* the generations of getMessages: direct open (500 on failure), fail-open, pooled
MessageGenerations == {"checked", "failopen", "pooled"}

GetMessages(v, rp) ==
    LET req == GetRoomParamRequired(rp)
        res == [Blank EXCEPT !.op = "getMessages", !.v = v, !.room = req.room,
                             !.input = [room |-> rp]]
        none == [res EXCEPT !.code = 200, !.body = MarshalMessages(<<>>)]
    IN  /\ UNCHANGED <<canvas, chat, tasks, ningest, inbox>>
        /\ IF req.code # 0
           THEN /\ last' = [res EXCEPT !.ret = 1, !.code = 400, !.body = "error"]
                /\ UNCHANGED pool
           ELSE \E o \in (IF v = "pooled" THEN PoolOutcomes(pool) ELSE DirectOutcomes(pool)) :
                    /\ pool' = o.pool
                    /\ IF ~o.ok
                       THEN last' = IF FailOpen(v) THEN [none EXCEPT !.fault = "open"]
                                    ELSE [res EXCEPT !.ret = 1, !.code = 500, !.body = "error",
                                                     !.fault = "open"]
                       ELSE \/ last' = [none EXCEPT !.fault = "list"]
                            \/ LET prefix == RoomPrefix(req.room)
                                   keys == {k \in List(chat, prefix) : Len(k) > Len(prefix)}
                               IN  \E failedGets \in FaultSets(keys) :
                                   \E sorted \in Collected(chat, keys \ failedGets) :
                                       last' = [res EXCEPT
                                                  !.code = 200,
                                                  !.body = MarshalMessages(sorted),
                                                  !.msgs = sorted,
                                                  !.failed = failedGets,
                                                  !.fault = IF failedGets = {} THEN "none" ELSE "get"]

(***************************************************************************)
(* The events the model delivers.                                          *)
(***************************************************************************)
Red == <<"#", "f", "f", "0", "0", "0", "0">>
Green == <<"#", "0", "0", "f", "f", "0", "0">>
NotAColor == <<"r", "e", "d">>

RoomA == <<"a">>
RoomA21 == <<"a", "/", "2", ":", "1">>

JPixel(x10, y10, color, userId, username) ==
    [x10 |-> x10, y10 |-> y10, color |-> color, userId |-> userId, username |-> username]
Num(v10) == [k |-> "num", v10 |-> v10]
Str(s) == [k |-> "str", s |-> s]

PA == JPixel(20, 10, Red, "u1", "alice")          \* (2,1)
PB == JPixel(20, 10, NotAColor, "u2", "bob")      \* (2,1) again, not "#rrggbb"
PC == JPixel(900, 0, Green, "u1", "alice")        \* (90,0): outside
PF == JPixel(30, 40, Green, "u2", "bob")          \* (3,4)

JBad == [t |-> "bad"]
JArr(px) == [t |-> "arr", px |-> px]
JObj(px, room) == [t |-> "obj", px |-> px, room |-> room]
JCmp(p, r, s) == [t |-> "cmp", p |-> p, r |-> r, s |-> s]

Docs ==
    {JBad,
     JArr(<<PF>>),
     JObj(<<PA, PB>>, RoomA),
     JObj(<<PC, PA>>, RoomA21),
     JCmp(<<<<Num(25), Num(10), Str(Red)>>, <<Num(900), Num(0), Str(Green)>>,
            <<Num(30), Num(40)>>>>, RoomA, "u1")}

\* little-endian encodings, used to write the buffers below
LE16(n) == <<n % 256, (n \div 256) % 256>>
LE32(n) == <<n % 256, (n \div 256) % 256, (n \div 65536) % 256, (n \div 16777216) % 256>>
\* one pixel record; the packed color is given by its four bytes, lowest first
Rec(x, y, packed) == LE16(x) \o LE16(y) \o packed

Buffers ==
    {LE32(1) \o Rec(3, 4, <<0, 255, 0, 0>>),                    \* the example of the layout
     LE32(2) \o Rec(2, 1, <<255, 0, 0, 0>>) \o <<9, 9, 9>>,        \* declares 2, holds 1 and a stub
     <<1, 0>>}

Frames ==
    {LE32(1) \o <<7>> \o LE32(2) \o Rec(3, 4, <<0, 0, 255, 171>>) \o Rec(90, 0, <<1, 0, 0, 0>>),
     LE32(9) \o <<7>>}

QueryRooms == {Param(RoomA), Param(RoomA21), Param(DefaultRoom), NoParam}

Init ==
    /\ canvas = <<>>
    /\ chat = <<>>
    /\ pool = [dbInit |-> FALSE, canvasDB |-> "unset", chatDB |-> "unset"]
    /\ tasks = <<>>
    /\ last = Blank
    /\ ningest = 0
    /\ inbox = <<>>

Next ==
    \/ \E v \in {"backend", "checked", "array", "compressed"} : \E doc \in Docs :
           OnPixelUpdateSync(v, doc, 64)
    \/ \E data \in Buffers : \E bits \in IntWidths : OnPixelUpdateSync("binary", data, bits)
    \/ \E data \in Frames : \E bits \in IntWidths : OnPixelUpdateDetached(data, bits)
    \/ \E i \in DOMAIN tasks : PixelWriterStep(i)
    \/ \E v \in {"backend", "checked", "failopen", "pooled"} : \E rp \in QueryRooms :
           GetCanvas(v, rp)
    \/ \E tp \in {Param("canvas"), Param("chat"), Param("bogus"), NoParam} :
           \E rp \in {Param(RoomA), NoParam} : ClearData(tp, rp)

Spec == Init /\ [][Next]_vars

(***************************************************************************)
(* SpecChat: the chat handlers.                                            *)
(***************************************************************************)
JChat(id, userId, username, message, ts10, room) ==
    [t |-> "chat", id |-> id, userId |-> userId, username |-> username,
     message |-> message, ts10 |-> ts10, room |-> room]

M1 == <<"m", "1">>
M2 == <<"m", "2">>
M3 == <<"m", "3">>

ChatDocs ==
    {JChat(M1, "u1", "alice", "hello", 20, RoomA),
     JChat(M2, "u2", "bob", "hi", 10, RoomA),
     JChat(M3, "u1", "alice", "again", 20, RoomA),
     JChat(M2, "u2", "bob", "half", 15, <<>>)}

NextChat ==
    \/ \E v \in ChatGenerations : \E doc \in ChatDocs : OnChatMessages(v, doc)
    \/ \E v \in MessageGenerations : \E rp \in {Param(RoomA), Param(DefaultRoom), NoParam} :
           GetMessages(v, rp)
    \/ \E tp \in {Param("chat"), NoParam} : \E rp \in {Param(RoomA), NoParam} :
           ClearData(tp, rp)

SpecChat == Init /\ [][NextChat]_vars

(***************************************************************************)
(* SpecDecode: the pixel decoders on their own.  Init draws the payload,   *)
(* the steps hand it to the handlers.                                      *)
(***************************************************************************)
\* a logical batch, and its four encodings as a client writes them
Batch(room, s, pixels) == [t |-> "batch", room |-> room, s |-> s, pixels |-> pixels]

JPixelOf(p) == JPixel(p.x * 10, p.y * 10, p.color, p.userId, p.username)

HexVal(c) ==
    CASE c = "A" -> 10 [] c = "B" -> 11 [] c = "C" -> 12 [] c = "D" -> 13
      [] c = "E" -> 14 [] c = "F" -> 15
      [] OTHER -> (CHOOSE d \in 1..16 : HexDigits[d] = c) - 1

\* 0x00RRGGBB, lowest byte first
PackColor(color) ==
    <<16 * HexVal(color[6]) + HexVal(color[7]), 16 * HexVal(color[4]) + HexVal(color[5]),
      16 * HexVal(color[2]) + HexVal(color[3]), 0>>

RECURSIVE Records(_)
Records(pixels) ==
    IF pixels = <<>> THEN <<>>
    ELSE Rec(Head(pixels).x, Head(pixels).y, PackColor(Head(pixels).color))
             \o Records(Tail(pixels))

EncodeArray(b) == JArr([i \in DOMAIN b.pixels |-> JPixelOf(b.pixels[i])])
EncodeObject(b) == JObj([i \in DOMAIN b.pixels |-> JPixelOf(b.pixels[i])], b.room)
EncodeCompressed(b) ==
    JCmp([i \in DOMAIN b.pixels |->
             <<Num(b.pixels[i].x * 10), Num(b.pixels[i].y * 10), Str(b.pixels[i].color)>>],
         b.room, b.s)
EncodeBinary(b) == LE32(Len(b.pixels)) \o Records(b.pixels)

UpperBlue == <<"#", "0", "0", "0", "0", "A", "B">>

LogicalPixels ==
    {Pixel(3, 4, Green, "u1", "alice"),
     Pixel(2, 1, Red, "u1", "alice"),
     Pixel(90, 0, Green, "u2", "bob"),
     Pixel(0, 300, UpperBlue, "u1", "alice")}

Batches ==
    {Batch(room, "u1", pixels) :
        room \in {RoomA, <<>>},
        pixels \in {<<>>} \cup {<<p>> : p \in LogicalPixels}
                          \cup {<<p, q>> : p \in LogicalPixels, q \in LogicalPixels}}

\* binary buffers: a count field, up to two records, possibly a stub of a third
Counts == {LE32(0), LE32(1), LE32(2), LE32(3), <<0, 0, 0, 128>>, <<0, 0, 0, 4>>}

SomeRecords ==
    {Rec(3, 4, <<0, 255, 0, 0>>),
     Rec(2, 1, <<1, 0, 0, 0>>),
     Rec(90, 0, <<205, 171, 0, 255>>),
     Rec(300, 65535, <<255, 255, 255, 18>>)}

BinaryPayloads ==
    {<<1, 0>>} \cup
    {c \o body \o stub :
        c \in Counts,
        body \in {<<>>} \cup SomeRecords \cup {r \o q : r \in SomeRecords, q \in SomeRecords},
        stub \in {<<>>, <<9, 9, 9>>}}

InitDecode ==
    /\ canvas = <<>>
    /\ chat = <<>>
    /\ pool = [dbInit |-> FALSE, canvasDB |-> "unset", chatDB |-> "unset"]
    /\ tasks = <<>>
    /\ last = Blank
    /\ ningest = 0
    /\ inbox \in Batches \cup {[t |-> "bin", data |-> d] : d \in BinaryPayloads}

\* the four encodings of the batch, each through the decoder written for it
DecodeEach ==
    /\ inbox.t = "batch"
    /\ last' = [Blank EXCEPT
                  !.op = "decode", !.input = inbox,
                  !.msgs = [array |-> DecodeArrayOrObject(EncodeArray(inbox)),
                            object |-> DecodeObject(EncodeObject(inbox)),
                            compressed |-> DecodeCompressedOrObject(EncodeCompressed(inbox)),
                            binary |-> DecodeBinary(EncodeBinary(inbox), 64)]]
    /\ UNCHANGED <<canvas, chat, pool, tasks, ningest, inbox>>

NextDecode ==
    \/ DecodeEach
    \/ /\ inbox.t = "bin"
       /\ \E bits \in IntWidths : OnPixelUpdateSync("binary", inbox.data, bits)

SpecDecode == InitDecode /\ [][NextDecode]_vars

(***************************************************************************)
(* Notions the properties are stated with.                                 *)
(***************************************************************************)
HexChars == {"0", "1", "2", "3", "4", "5", "6", "7", "8", "9",
             "a", "b", "c", "d", "e", "f", "A", "B", "C", "D", "E", "F"}

\* a string of the form "#rrggbb"
IsColor(s) == Len(s) = 7 /\ s[1] = "#" /\ \A i \in 2..7 : s[i] \in HexChars

RECURSIVE LastSlash(_, _)
LastSlash(k, i) == IF i = 0 \/ k[i] = "/" THEN i ELSE LastSlash(k, i - 1)

\* the room a canvas key was written for: the text between the first "/" and
\* the "/" before "{x}:{y}"
RoomOfKey(k) == SubSeq(k, 2, LastSlash(k, Len(k)) - 1)

\* the pixel record stored under a key
Stored(db, k) == UnmarshalPixel(db[k]).pixel

\* the grids a getCanvas of generation v can return for the room when every
\* store call succeeds (none when the request panics)
Views(v, db, room) ==
    LET keys == Assigned(v, db, room, {})
    IN  IF IndexPanics(keys, room) THEN {}
        ELSE {[SeedGrid EXCEPT !.cells = c] : c \in Overlays(db, room, keys)}

CanvasGenerations == {"backend", "checked", "failopen", "pooled"}

\* pixel i of a batch is the last one of the batch for its cell
LastForCell(pixels, i) ==
    \A j \in DOMAIN pixels : j > i => ~(pixels[j].x = pixels[i].x /\ pixels[j].y = pixels[i].y)

(***************************************************************************)
(* C2: after any sequence of ingests the canvas database holds no record   *)
(* whose x or y lies outside [0, 90).                                      *)
(***************************************************************************)
C2_NoOutOfRangeRecord ==
    \A k \in DOMAIN canvas : InBounds(Stored(canvas, k).x, Stored(canvas, k).y)

(***************************************************************************)
(* C8: every getCanvas that gets past the parameter and store-open checks  *)
(* completes and returns a grid of exactly 90 rows of 90 cells.            *)
(***************************************************************************)
C8_CanvasAlwaysComplete ==
    (last.op = "getCanvas" /\ last.code # 400 /\ last.fault # "open") =>
        /\ last.ret = 0 /\ last.code = 200 /\ last.body = "grid"
        /\ last.grid.h = 90 /\ last.grid.w = 90

(***************************************************************************)
(* C9: every cell of every getCanvas response is a string "#rrggbb".       *)
(***************************************************************************)
C9_CellsAreColors ==
    (last.op = "getCanvas" /\ last.body = "grid") =>
        /\ IsColor(last.grid.bg)
        /\ \A c \in DOMAIN last.grid.cells : IsColor(last.grid.cells[c])

(***************************************************************************)
(* C6: after clearData(type, room) the selected database holds no key of   *)
(* that room, and the keys and values of every other room are what they    *)
(* were before the call.                                                   *)
(***************************************************************************)
C6_ClearLeavesOtherRooms ==
    (last.op = "clear" /\ last.v = "canvas" /\ last.code = 200 /\ last.fault = "none") =>
        /\ \A k \in DOMAIN canvas : RoomOfKey(k) # last.room
        /\ \A k \in DOMAIN last.before :
               RoomOfKey(k) # last.room => (k \in DOMAIN canvas /\ canvas[k] = last.before[k])
        /\ \A k \in DOMAIN canvas : k \in DOMAIN last.before

(***************************************************************************)
(* C1 (as stated): once an ingestion handler has returned 0, a getCanvas   *)
(* for the batch's room shows, for every in-range pixel (the last one of   *)
(* the batch for its cell), the ingested color in cell [y][x].             *)
(***************************************************************************)
C1_ShownOnceReturned ==
    (last.op = "pixel" /\ last.ret = 0) =>
        \A i \in DOMAIN last.pixels :
            LET p == last.pixels[i]
            IN  (InBounds(p.x, p.y) /\ LastForCell(last.pixels, i)) =>
                    \A v \in CanvasGenerations : \A g \in Views(v, canvas, last.room) :
                        Cell(g, p.x, p.y) = p.color

\* the keys under the room's prefix that scan to the cell (x, y): the pixel's
\* own key and the keys written for a room whose name continues this room's
\* name with "/{x}:{y}..."
Claimants(db, room, x, y) ==
    {k \in List(db, RoomPrefix(room)) :
        /\ Len(k) > Len(RoomPrefix(room))
        /\ Sscanf2(CoordPart(k, room)).n = 2
        /\ RowCol(k, room) = <<y, x>>}

\* the writes of the step are over and none of them failed
WritesDone ==
    \/ last.op = "pixel" /\ last.v # "framed" /\ last.ret = 0 /\ last.fault = "none"
    \/ last.op = "task" /\ last.nput = 1 /\ last.fault = "none"

(***************************************************************************)
(* C1 (amended): when a synchronous ingestion handler has returned 0 and   *)
(* none of its db.Put calls failed (in the detached generation: when the   *)
(* writer's Put of the pixel has succeeded), the record of every in-range  *)
(* pixel (the last one of the batch for its cell) is stored under          *)
(* "/{room}/{x}:{y}" with the ingested color, and every grid a getCanvas   *)
(* for the room then returns shows in cell [y][x] the color of a record    *)
(* whose key scans to that cell: the ingested color, or that of a record   *)
(* written for a "/"-extended room name.  Every grid a getCanvas returns   *)
(* is "#ffffff" in the cells to which no stored key under the room's       *)
(* prefix scans, and shows a stored record's color in the others.          *)
(***************************************************************************)
C1_ShownAfterWrites ==
    /\ WritesDone =>
          \A i \in DOMAIN last.pixels :
              LET p == last.pixels[i]
                  key == PixelKey(last.room, p.x, p.y)
              IN  (InBounds(p.x, p.y) /\ LastForCell(last.pixels, i)) =>
                      /\ key \in DOMAIN canvas
                      /\ Stored(canvas, key).color = p.color
                      /\ \A v \in CanvasGenerations : \A g \in Views(v, canvas, last.room) :
                             LET ks == Claimants(canvas, last.room, p.x, p.y)
                             IN  /\ Cell(g, p.x, p.y) \in {Stored(canvas, k).color : k \in ks}
                                 /\ ks = {key} => Cell(g, p.x, p.y) = p.color
    /\ (last.op = "getCanvas" /\ last.body = "grid") =>
          /\ last.grid.bg = White
          /\ \A c \in DOMAIN last.grid.cells :
                 \E k \in List(canvas, RoomPrefix(last.room)) :
                     /\ Sscanf2(CoordPart(k, last.room)).n = 2
                     /\ RowCol(k, last.room) = c
                     /\ Stored(canvas, k).color = last.grid.cells[c]

\* a binary batch was written and the pooled getCanvas shows its pixel (3, 4)
C1_Witness ==
    /\ last.op = "pixel" /\ last.v = "binary" /\ last.ret = 0 /\ last.fault = "none"
    /\ last.nput = 1
    /\ \E i \in DOMAIN last.pixels : last.pixels[i].x = 3 /\ last.pixels[i].y = 4
    /\ \E g \in Views("pooled", canvas, last.room) : Cell(g, 3, 4) = Green

\* the records a binary buffer holds after its header exceed / fall short of
\* the count it declares
DeclaresTooMany(data) ==
    Len(data) >= 4 /\ ~Leq(U32LE(data, 0), (Len(data) - 4) \div 8)

(***************************************************************************)
(* C3: a binary pixel payload whose declared count exceeds the records     *)
(* present is rejected with status 1 and nothing of it is persisted.       *)
(***************************************************************************)
C3_OverrunRejected ==
    (last.op = "pixel" /\ last.v = "binary" /\ DeclaresTooMany(last.input)) =>
        last.ret = 1 /\ last.nput = 0

(***************************************************************************)
(* C10 (as stated): a getCanvas during which opening the canvas database,  *)
(* listing the room prefix or reading a key fails still answers 200 with   *)
(* a grid that is "#ffffff" everywhere.                                    *)
(***************************************************************************)
C10_FailuresGiveWhiteCanvas ==
    (last.op = "getCanvas" /\ last.fault \in {"open", "list", "get"}) =>
        last.ret = 0 /\ last.code = 200 /\ last.grid = SeedGrid

(***************************************************************************)
(* C10 (amended): a failure of db.List answers 200 with the all-"#ffffff"  *)
(* grid.  A failure of database.New answers 200 with that grid only in the *)
(* fail-open generation; the other generations answer 500 and return 1.    *)
(* A failure of db.Get in a bounds-checking generation still answers 200   *)
(* with a 90 x 90 grid, which leaves out the key that could not be read    *)
(* and shows the records of the room's other keys.                         *)
(***************************************************************************)
C10_ReadFailures ==
    last.op = "getCanvas" =>
        /\ last.fault = "list" => (last.ret = 0 /\ last.code = 200 /\ last.grid = SeedGrid)
        /\ last.fault = "open" =>
               IF last.v = "failopen"
               THEN last.ret = 0 /\ last.code = 200 /\ last.grid = SeedGrid
               ELSE last.ret = 1 /\ last.code = 500 /\ last.body = "error"
        /\ (last.fault = "get" /\ BoundsChecked(last.v)) =>
               /\ last.ret = 0 /\ last.code = 200 /\ last.body = "grid"
               /\ last.grid.h = CanvasHeight /\ last.grid.w = CanvasWidth
               /\ last.grid.bg = White
               /\ \A c \in DOMAIN last.grid.cells :
                      \E k \in List(canvas, RoomPrefix(last.room)) :
                          RowCol(k, last.room) = c /\ Stored(canvas, k).color = last.grid.cells[c]

\* one db.Get failed and the response still shows another record of the room
C10_Witness ==
    /\ last.op = "getCanvas" /\ last.fault = "get" /\ last.v = "failopen"
    /\ last.code = 200
    /\ DOMAIN last.grid.cells # {}

(***************************************************************************)
(* C5: the messages of a getMessages response are in non-decreasing        *)
(* timestamp order (no order is promised among equal timestamps).          *)
(***************************************************************************)
C5_MessagesSorted ==
    (last.op = "getMessages" /\ last.code = 200) =>
        \A i, j \in DOMAIN last.msgs :
            i < j => last.msgs[i].timestamp <= last.msgs[j].timestamp

\* three messages are returned, the two with timestamp 2 in the order m3, m1
C5_Witness ==
    /\ last.op = "getMessages" /\ last.code = 200 /\ Len(last.msgs) = 3
    /\ last.msgs[1].timestamp = 1
    /\ last.msgs[2].timestamp = 2 /\ last.msgs[2].id = M3
    /\ last.msgs[3].timestamp = 2 /\ last.msgs[3].id = M1

\* "#" and the two hexadecimal digits of each of three bytes
HexByte(b) == <<HexDigits[(b \div 16) + 1], HexDigits[(b % 16) + 1]>>
Hex6(r, g, b) == <<"#">> \o HexByte(r) \o HexByte(g) \o HexByte(b)

\* the pixels the layout describes: as many complete 8-byte records as the
\* buffer holds after the count, up to the count
DescribedPixels(data) ==
    LET held == (Len(data) - 4) \div 8
        count == U32LE(data, 0)
        n == IF count.hi = 0 /\ count.lo < held THEN count.lo ELSE held
    IN  [i \in 1..n |->
            LET o == 4 + 8 * (i - 1)
            IN  Pixel(data[o + 1] + 256 * data[o + 2], data[o + 3] + 256 * data[o + 4],
                      Hex6(data[o + 7], data[o + 6], data[o + 5]), "unknown", "unknown")]

LayoutExample == <<1, 0, 0, 0, 3, 0, 4, 0, 0, 255, 0, 0>>

(***************************************************************************)
(* C7: the fixed binary pixel decoder reads a little-endian uint32 count   *)
(* and then, per pixel, uint16 x, uint16 y and a uint32 color, and yields  *)
(* Pixel{x, y, "#%06x" of the low 24 bits, "unknown", "unknown"}; the top  *)
(* byte of the color is ignored.  Count 1, x 3, y 4, color 0x00FF00 gives  *)
(* the single pixel (3, 4, "#00ff00").                                     *)
(***************************************************************************)
C7_BinaryLayoutDecoded ==
    (last.op = "pixel" /\ last.v = "binary") =>
        /\ Len(last.input) < 4 => last.ret = 1
        /\ (Len(last.input) >= 4 /\ last.ret # -1) => last.pixels = DescribedPixels(last.input)
        /\ (last.input = LayoutExample /\ last.ret = 0) =>
               last.pixels = <<Pixel(3, 4, Green, "unknown", "unknown")>>

\* a record with color bytes cd ab 00 ff was decoded to "#00abcd"
C7_Witness ==
    /\ last.op = "pixel" /\ last.v = "binary" /\ last.ret = 0
    /\ Len(last.pixels) = 2
    /\ last.pixels[2] = Pixel(90, 0, <<"#", "0", "0", "a", "b", "c", "d">>, "unknown", "unknown")
    /\ SubSeq(last.input, 17, 20) = <<205, 171, 0, 255>>

\* the (x, y, color) of each pixel of a sequence
Triples(pixels) == [i \in DOMAIN pixels |-> <<pixels[i].x, pixels[i].y, pixels[i].color>>]

LowerChar(c) ==
    CASE c = "A" -> "a" [] c = "B" -> "b" [] c = "C" -> "c" [] c = "D" -> "d"
      [] c = "E" -> "e" [] c = "F" -> "f" [] OTHER -> c
Lower(s) == [i \in DOMAIN s |-> LowerChar(s[i])]

(***************************************************************************)
(* C4 (as stated): the bare array, the object, the compressed object and   *)
(* the binary layout of one logical batch decode to the same sequence of   *)
(* pixels for the same room.                                               *)
(***************************************************************************)
C4_SameBatchFromEveryFormat ==
    last.op = "decode" =>
        LET d == last.msgs
        IN  /\ d.array.ret = 0 /\ d.object.ret = 0 /\ d.compressed.ret = 0 /\ d.binary.ret = 0
            /\ d.array.pixels = d.object.pixels
            /\ d.object.pixels = d.compressed.pixels
            /\ d.compressed.pixels = d.binary.pixels
            /\ d.array.room = d.object.room
            /\ d.object.room = d.compressed.room
            /\ d.compressed.room = d.binary.room

(***************************************************************************)
(* C4 (amended): for a batch of at least one pixel with coordinates in     *)
(* 0..65535 and "#rrggbb" colors, the four formats decode to the same      *)
(* sequence of (x, y) and, the binary layout writing hexadecimal digits in *)
(* lower case, of colors.  The bare array and the object also yield the    *)
(* same userId and username; the compressed object yields userId = s and   *)
(* username "unknown", the binary layout "unknown" for both.  The object   *)
(* and the compressed object address the batch's room ("default" when it   *)
(* is empty), the bare array and the binary layout always "default".  Of   *)
(* an empty batch the bare array is rejected with status 1, the others     *)
(* decode to no pixels.                                                    *)
(***************************************************************************)
C4_SameCellsFromEveryFormat ==
    last.op = "decode" =>
        LET d == last.msgs
            b == last.input
        IN  /\ d.object.ret = 0 /\ d.compressed.ret = 0 /\ d.binary.ret = 0
            /\ d.array.ret = IF b.pixels = <<>> THEN 1 ELSE 0
            /\ d.object.pixels = b.pixels
            /\ b.pixels # <<>> => d.array.pixels = b.pixels
            /\ Triples(d.compressed.pixels) = Triples(b.pixels)
            /\ Triples(d.binary.pixels) =
                   [i \in DOMAIN b.pixels |->
                       <<b.pixels[i].x, b.pixels[i].y, Lower(b.pixels[i].color)>>]
            /\ \A i \in DOMAIN d.compressed.pixels :
                   /\ d.compressed.pixels[i].userId = b.s
                   /\ d.compressed.pixels[i].username = "unknown"
            /\ \A i \in DOMAIN d.binary.pixels :
                   /\ d.binary.pixels[i].userId = "unknown"
                   /\ d.binary.pixels[i].username = "unknown"
            /\ d.object.room = RoomOrDefault(b.room)
            /\ b.pixels # <<>> => d.compressed.room = RoomOrDefault(b.room)
            /\ d.array.room = DefaultRoom /\ d.binary.room = DefaultRoom

\* a batch of two pixels for room "a" went through the four decoders
C4_Witness ==
    /\ last.op = "decode" /\ last.input.room = RoomA /\ Len(last.input.pixels) = 2
    /\ last.input.pixels[1].x = 2 /\ last.input.pixels[2].x = 90
    /\ Triples(last.msgs.binary.pixels) = Triples(last.msgs.compressed.pixels)
    /\ Triples(last.msgs.array.pixels) = Triples(last.msgs.binary.pixels)

(***************************************************************************)
(* The binary chat layout: four length-prefixed strings (message id, user  *)
(* id, username, message), each a uint32 length and that many bytes, then  *)
(* a uint32 timestamp, all little-endian.  The handler that reads it       *)
(* stores under the room "default"; the detached variant hands the Put to  *)
(* a goroutine and returns.                                                *)
(***************************************************************************)
Letters ==
    <<"a", "b", "c", "d", "e", "f", "g", "h", "i", "j", "k", "l", "m",
      "n", "o", "p", "q", "r", "s", "t", "u", "v", "w", "x", "y", "z">>

\* string(data[i:i+1]) for the bytes of printable ASCII used here; any other
\* byte is written as its escape
Chr(b) ==
    CASE b \in 48..57 -> DecDigits[b - 47]
      [] b \in 97..122 -> Letters[b - 96]
      [] b = 47 -> "/"
      [] b = 58 -> ":"
      [] b = 32 -> " "
      [] OTHER -> "\\x" \o ToString(b)

\* string(data[a:b]) as a sequence of characters (message ids, which become keys)
Chars(bytes) == [i \in 1..Len(bytes) |-> Chr(bytes[i])]

RECURSIVE StringOf(_)
\* string(data[a:b]) as a string
StringOf(bytes) == IF bytes = <<>> THEN "" ELSE Chr(Head(bytes)) \o StringOf(Tail(bytes))

\* n < k, for a small k >= 0
Lt(n, k) == n.hi < 0 \/ (n.hi = 0 /\ n.lo < k)

\* the four length-prefixed strings, read[offset, n] being the rest of the
\* parse with n strings to go: for each the two length checks, then the
\* slice data[offset+4 : offset+4+length], which panics when its end lies
\* before its start (a length that int() or the addition turned negative)
ReadStrings(data, bits) ==
    LET failed(ret, offset) == [ret |-> ret, fields |-> <<>>, offset |-> offset]
        read[offset \in 0..Len(data), n \in 0..4] ==
            IF n = 0 THEN [ret |-> 0, fields |-> <<>>, offset |-> offset]
            ELSE IF offset + 4 > Len(data) THEN failed(1, offset)
            ELSE LET end == Plus(ToInt(U32LE(data, offset), bits), offset + 4, bits)
                 IN  IF ~Leq(end, Len(data)) THEN failed(1, offset)
                     ELSE IF Lt(end, offset + 4) THEN failed(-1, offset)
                     ELSE LET rest == read[end.lo, n - 1]
                          IN  [rest EXCEPT
                                 !.fields = <<SubSeq(data, offset + 5, end.lo)>> \o @]
    IN  read[0, 4]

\* a timestamp read from two bytes only
TimestampLow(u) == u.lo

\* int64(uint32(...)) of the timestamp
Timestamp(u) == u.hi * 65536 + u.lo

DecodeBinaryChat(data, bits) ==
    LET r == ReadStrings(data, bits)
    IN  IF r.ret # 0 THEN [ret |-> r.ret, room |-> DefaultRoom, message |-> NoMessage]
        ELSE IF r.offset + 4 > Len(data)
        THEN [ret |-> 1, room |-> DefaultRoom, message |-> NoMessage]
        ELSE [ret |-> 0, room |-> DefaultRoom,
              message |-> ChatMessage(Chars(r.fields[1]), StringOf(r.fields[2]),
                                      StringOf(r.fields[3]), StringOf(r.fields[4]),
                                      Timestamp(U32LE(data, r.offset)))]

\* the synchronous binary handler: decode, getChatDB, db.Put, return 0
OnChatMessagesBinary(data, bits) ==
    LET d == DecodeBinaryChat(data, bits)
        res == [Blank EXCEPT !.op = "chat", !.v = "binary", !.room = d.room, !.ret = d.ret,
                             !.input = data,
                             !.msgs = IF d.ret = 0 THEN <<d.message>> ELSE <<>>]
    IN  /\ ningest < MaxChat
        /\ ningest' = ningest + 1
        /\ UNCHANGED <<canvas, tasks, inbox>>
        /\ IF d.ret # 0
           THEN /\ last' = res
                /\ UNCHANGED <<chat, pool>>
           ELSE \E o \in PoolOutcomes(pool) :
                    /\ pool' = o.pool
                    /\ IF ~o.ok
                       THEN /\ last' = [res EXCEPT !.ret = 1, !.fault = "open"]
                            /\ UNCHANGED chat
                       ELSE \/ /\ chat' = Put(chat, ChatKey("binary", d.room, d.message),
                                              MarshalMessage(d.message))
                               /\ last' = [res EXCEPT !.nput = 1]
                            \/ /\ UNCHANGED chat
                               /\ last' = [res EXCEPT !.ret = 1, !.nput = 1, !.fault = "put"]

\* a detached handler that opens the database itself and reports the failure
OnChatMessagesAwaited(data, bits) ==
    LET d == DecodeBinaryChat(data, bits)
        res == [Blank EXCEPT !.op = "chat", !.v = "detached", !.room = d.room,
                             !.input = data,
                             !.msgs = IF d.ret = 0 THEN <<d.message>> ELSE <<>>]
    IN  /\ ningest < MaxChat
        /\ ningest' = ningest + 1
        /\ UNCHANGED <<canvas, chat, inbox>>
        /\ \E o \in PoolOutcomes(pool) :
               /\ pool' = IF d.ret = 0 THEN o.pool ELSE pool
               /\ last' = [res EXCEPT !.ret = IF d.ret = 0 /\ ~o.ok THEN 1 ELSE d.ret]
               /\ tasks' = IF d.ret = 0 /\ o.ok
                           THEN Append(tasks, [kind |-> "chat", room |-> d.room,
                                               opened |-> TRUE, todo |-> <<d.message>>])
                           ELSE tasks

\* the detached binary handler: decode, start the goroutine, return 0
OnChatMessagesDetached(data, bits) ==
    LET d == DecodeBinaryChat(data, bits)
        res == [Blank EXCEPT !.op = "chat", !.v = "detached", !.room = d.room, !.ret = d.ret,
                             !.input = data,
                             !.msgs = IF d.ret = 0 THEN <<d.message>> ELSE <<>>]
    IN  /\ ningest < MaxChat
        /\ ningest' = ningest + 1
        /\ last' = res
        /\ UNCHANGED <<canvas, chat, pool, inbox>>
        /\ tasks' = IF d.ret = 0
                    THEN Append(tasks, [kind |-> "chat", room |-> d.room, opened |-> FALSE,
                                        todo |-> <<d.message>>])
                    ELSE tasks

\* one step of the goroutine of the detached chat handler: getChatDB, then
\* the Put; whatever fails, the goroutine just ends
ChatWriterStep(i) ==
    LET t == tasks[i]
        res == [Blank EXCEPT !.op = "task", !.v = "detached", !.room = t.room]
    IN  /\ t.kind = "chat"
        /\ UNCHANGED <<canvas, ningest, inbox>>
        /\ IF ~t.opened
           THEN \E o \in PoolOutcomes(pool) :
                    /\ pool' = o.pool
                    /\ UNCHANGED chat
                    /\ last' = [res EXCEPT !.fault = IF o.ok THEN "none" ELSE "open"]
                    /\ tasks' = IF o.ok THEN [tasks EXCEPT ![i].opened = TRUE]
                                ELSE Remove(tasks, i)
           ELSE \E ok \in BOOLEAN :
                    /\ UNCHANGED pool
                    /\ chat' = IF ok THEN Put(chat, ChatKey("detached", t.room, Head(t.todo)),
                                              MarshalMessage(Head(t.todo)))
                               ELSE chat
                    /\ last' = [res EXCEPT !.msgs = t.todo, !.nput = 1,
                                           !.fault = IF ok THEN "none" ELSE "put"]
                    /\ tasks' = Remove(tasks, i)

(***************************************************************************)
(* C11: when the database cannot be opened, getCanvas and getMessages      *)
(* answer 500, return a non-zero status and write no canvas or message     *)
(* body.                                                                   *)
(***************************************************************************)
C11_OpenFailureIs500 ==
    (last.op \in {"getCanvas", "getMessages"} /\ last.fault = "open") =>
        last.code = 500 /\ last.ret # 0 /\ last.body = "error"

(***************************************************************************)
(* C12: the body of every 200 response of getMessages is a JSON array,     *)
(* the empty array when there is nothing to return.                        *)
(***************************************************************************)
C12_MessagesBodyIsArray ==
    (last.op = "getMessages" /\ last.code = 200) => last.body = "array"

(***************************************************************************)
(* C13: when exactly one stored record fails to be read during a query,    *)
(* the query answers 200 with what it answers on the store without that    *)
(* record.                                                                 *)
(***************************************************************************)
OneFailed == last.fault = "get" /\ Cardinality(last.failed) = 1

C13_OneFailureSkipsOneRecord ==
    (last.op = "getCanvas" /\ OneFailed) =>
        /\ last.code = 200 /\ last.ret = 0
        /\ last.grid \in Views(last.v, DeleteAll(canvas, last.failed), last.room)

\* the part of C13 that holds: where getCanvas answers at all it answers as on
\* the store without the record, and a bounds-checking getCanvas always answers
C13_CanvasAsIfAbsent ==
    (last.op = "getCanvas" /\ OneFailed) =>
        LET views == Views(last.v, DeleteAll(canvas, last.failed), last.room)
        IN  /\ last.ret = -1 <=> views = {}
            /\ last.ret # -1 => last.code = 200 /\ last.grid \in views
            /\ BoundsChecked(last.v) => last.ret = 0

\* and getMessages answers 200 with the messages of the store without the record
C13_MessagesAsIfAbsent ==
    (last.op = "getMessages" /\ OneFailed) =>
        /\ last.code = 200 /\ last.ret = 0
        /\ last.msgs \in Collected(chat, DOMAIN DeleteAll(chat, last.failed)
                                           \cap List(chat, RoomPrefix(last.room)))

(***************************************************************************)
(* SpecIngest: every ingestion handler, each with a payload it cannot      *)
(* decode and one it can, and the goroutines of the detached handlers.     *)
(***************************************************************************)
\* length-prefixed bytes
Prefixed(bytes) == LE32(Len(bytes)) \o bytes

\* "m1" from "u1" (alice) saying "hi" at 7; the same id saying "yo" at 9; a
\* buffer shorter than its first length field; a length that overruns the
\* buffer; a length of 2^32 - 1
ChatBuffers ==
    {Prefixed(<<109, 49>>) \o Prefixed(<<117, 49>>) \o Prefixed(<<97, 108, 105, 99, 101>>)
        \o Prefixed(<<104, 105>>) \o LE32(7),
     Prefixed(<<109, 49>>) \o Prefixed(<<117, 50>>) \o Prefixed(<<98, 111, 98>>)
        \o Prefixed(<<121, 111>>) \o LE32(9),
     <<2, 0, 0>>,
     LE32(9) \o <<109>>,
     <<255, 255, 255, 255, 109>>}

IngestDocs == {JBad, JObj(<<PA>>, RoomA)}
IngestBuffers == {<<1, 0>>, LE32(1) \o Rec(3, 4, <<0, 255, 0, 0>>)}
IngestFrames == {<<1, 0>>, LE32(1) \o <<7>> \o LE32(1) \o Rec(3, 4, <<0, 0, 255, 171>>)}
IngestChatDocs == {JBad, JChat(M1, "u1", "alice", "hello", 20, RoomA)}

NextIngest ==
    \/ \E v \in {"backend", "checked", "array", "compressed"} : \E doc \in IngestDocs :
           OnPixelUpdateSync(v, doc, 64)
    \/ \E data \in IngestBuffers : \E bits \in IntWidths :
           OnPixelUpdateSync("binary", data, bits)
    \/ \E data \in IngestFrames : \E bits \in IntWidths : OnPixelUpdateDetached(data, bits)
    \/ \E v \in ChatGenerations : \E doc \in IngestChatDocs : OnChatMessages(v, doc)
    \/ \E data \in ChatBuffers : \E bits \in IntWidths : OnChatMessagesBinary(data, bits)
    \/ \E data \in ChatBuffers : \E bits \in IntWidths : OnChatMessagesDetached(data, bits)
    \/ \E i \in DOMAIN tasks : PixelWriterStep(i)
    \/ \E i \in DOMAIN tasks : ChatWriterStep(i)

SpecIngest == Init /\ [][NextIngest]_vars

(***************************************************************************)
(* C14: every ingestion handler answers a payload that is not JSON, or a   *)
(* binary buffer too short for its header, with a non-zero status and      *)
(* leaves both stores as they were.                                        *)
(***************************************************************************)
BinaryGenerations == {"binary", "framed", "detached"}

Malformed(l) ==
    /\ l.op \in {"pixel", "chat"}
    /\ IF l.v \in BinaryGenerations THEN Len(l.input) < 4 ELSE l.input = JBad

C14_MalformedRejected ==
    [][Malformed(last') =>
          /\ last'.ret = 1 /\ last'.nput = 0
          /\ UNCHANGED <<canvas, chat, pool, tasks>>]_vars

\* the detached chat handler has rejected a 3-byte buffer while both stores
\* hold records
C14_Witness ==
    /\ Malformed(last) /\ last.op = "chat" /\ last.v = "detached" /\ last.ret = 1
    /\ canvas # <<>> /\ chat # <<>>

(***************************************************************************)
(* SpecQuery: the three queries with every combination of their            *)
(* parameters, on stores filled by one pixel handler and one chat handler. *)
(***************************************************************************)
NextQuery ==
    \/ \E doc \in {JBad, JObj(<<PA, PB>>, RoomA)} : OnPixelUpdateSync("checked", doc, 64)
    \/ \E doc \in {JChat(M1, "u1", "alice", "hello", 20, RoomA)} :
           OnChatMessages("checked", doc)
    \/ \E v \in CanvasGenerations : \E rp \in {Param(RoomA), NoParam} : GetCanvas(v, rp)
    \/ \E v \in MessageGenerations : \E rp \in {Param(RoomA), NoParam} : GetMessages(v, rp)
    \/ \E tp \in {Param("canvas"), Param("chat"), Param("bogus"), NoParam} :
           \E rp \in {Param(RoomA), NoParam} : ClearData(tp, rp)

SpecQuery == Init /\ [][NextQuery]_vars

(***************************************************************************)
(* C15: a query without its required parameter (getCanvas or getMessages   *)
(* without room, clearData without type or with a type other than canvas   *)
(* and chat) answers 400 with a non-zero status before any store access:   *)
(* no handle is opened and no key is read, written or deleted.             *)
(***************************************************************************)
MissingParameter(l) ==
    \/ l.op \in {"getCanvas", "getMessages"} /\ ~l.input.room.present
    \/ l.op = "clear" /\ (~l.input.type.present \/ l.input.type.v \notin {"canvas", "chat"})

C15_MissingParameterIs400 ==
    [][MissingParameter(last') =>
          /\ last'.code = 400 /\ last'.ret # 0 /\ last'.body = "error"
          /\ last'.fault = "none" /\ last'.failed = {} /\ last'.grid = NoGrid
          /\ last'.msgs = <<>> /\ last'.before = <<>>
          /\ UNCHANGED <<canvas, chat, pool>>]_vars

\* a getCanvas without room and a clearData with type=bogus, on a store that
\* holds records
C15_Witness ==
    /\ MissingParameter(last) /\ last.code = 400 /\ canvas # <<>> /\ chat # <<>>
    /\ last.op = "clear" /\ last.input.type = Param("bogus")

(***************************************************************************)
(* C16: a stored chat message is immutable: ingesting a message with the   *)
(* id of a message already stored for the room leaves the stored record    *)
(* as it is.                                                               *)
(***************************************************************************)
\* a step that handled a decoded chat message: a handler, or the Put of a
\* detached handler's goroutine
ChatWrite(l) == l.op \in {"chat", "task"} /\ l.msgs # <<>>

\* the keys of the room's records that carry the id
StoredAs(db, room, id) ==
    {k \in List(db, RoomPrefix(room)) : UnmarshalMessage(db[k]).message.id = id}

C16_StoredMessageImmutable ==
    [][ChatWrite(last') =>
          \A k \in StoredAs(chat, last'.room, last'.msgs[1].id) :
              k \in DOMAIN chat' /\ chat'[k] = chat[k]]_vars

(***************************************************************************)
(* C17: chat messages are kept per room and id: ingesting a message        *)
(* leaves every stored message of the room that has another id in place,   *)
(* whatever the timestamps.                                                *)
(***************************************************************************)
C17_DistinctIdsBothRetained ==
    [][ChatWrite(last') =>
          \A k \in List(chat, RoomPrefix(last'.room)) :
              UnmarshalMessage(chat[k]).message.id # last'.msgs[1].id =>
                  k \in DOMAIN chat' /\ chat'[k] = chat[k]]_vars

(***************************************************************************)
(* SpecPool: getCanvasDB and getChatDB called concurrently.  Each call is  *)
(* a frame in `tasks`, [kind, id, pc]:                                     *)
(*   "read"    if !dbInit, read without the mutex                          *)
(*   "lock"    dbMutex.Lock() of initDatabases, then its `if dbInit`       *)
(*   "canvas"  canvasDB, err = database.New("/canvas")                     *)
(*   "chat"    chatDB, err = database.New("/chat")                         *)
(*   "set"     dbInit = true, the deferred Unlock, and the return          *)
(* The pool carries the holder of dbMutex (0 when free) and, as history,   *)
(* how often database.New was called for each path (`created`) and how     *)
(* often it handed a database to the shared variable (`assigned`).         *)
(***************************************************************************)
MaxCalls == 3

InitPool ==
    /\ canvas = <<>>
    /\ chat = <<>>
    /\ pool = [dbInit |-> FALSE, canvasDB |-> "unset", chatDB |-> "unset", mutex |-> 0,
               created |-> [canvas |-> 0, chat |-> 0],
               assigned |-> [canvas |-> 0, chat |-> 0]]
    /\ tasks = <<>>
    /\ last = Blank
    /\ ningest = 0
    /\ inbox = <<>>

\* a handler calls getCanvasDB or getChatDB
CallGetDB(kind) ==
    /\ ningest < MaxCalls
    /\ ningest' = ningest + 1
    /\ tasks' = Append(tasks, [kind |-> kind, id |-> ningest + 1, pc |-> "read"])
    /\ UNCHANGED <<canvas, chat, pool, last, inbox>>

\* the shared variable a call returns
Handle(kind, p) == IF kind = "getCanvasDB" THEN p.canvasDB ELSE p.chatDB

\* `if !dbInit` and, when it is set, `return canvasDB, 0`: both read without
\* the mutex, so a read racing with or following initDatabases may still
\* see the value from before the write
ReadInit(i) ==
    LET t == tasks[i]
    IN  /\ t.pc = "read"
        /\ UNCHANGED <<canvas, chat, pool, ningest, inbox>>
        /\ \/ /\ tasks' = [tasks EXCEPT ![i].pc = "lock"]
              /\ UNCHANGED last
           \/ /\ pool.dbInit
              /\ tasks' = Remove(tasks, i)
              /\ \E h \in {Handle(t.kind, pool), "unset"} :
                     last' = [Blank EXCEPT !.op = t.kind, !.ret = 0, !.handle = h]

\* dbMutex.Lock() granted, and `if dbInit { return 0 }` under the mutex
LockInit(i) ==
    LET t == tasks[i]
    IN  /\ t.pc = "lock"
        /\ pool.mutex = 0
        /\ UNCHANGED <<canvas, chat, ningest, inbox>>
        /\ IF pool.dbInit
           THEN /\ tasks' = Remove(tasks, i)
                /\ last' = [Blank EXCEPT !.op = t.kind, !.ret = 0,
                                         !.handle = Handle(t.kind, pool)]
                /\ UNCHANGED pool
           ELSE /\ tasks' = [tasks EXCEPT ![i].pc = "canvas"]
                /\ pool' = [pool EXCEPT !.mutex = t.id]
                /\ UNCHANGED last

\* canvasDB, err = database.New("/canvas"); on an error return 1, the mutex
\* released, the caller returning an empty database and 1
NewCanvas(i) ==
    LET t == tasks[i]
    IN  /\ t.pc = "canvas"
        /\ UNCHANGED <<canvas, chat, ningest, inbox>>
        /\ \/ /\ pool' = [pool EXCEPT !.canvasDB = "open", !.created.canvas = @ + 1,
                                      !.assigned.canvas = @ + 1]
              /\ tasks' = [tasks EXCEPT ![i].pc = "chat"]
              /\ UNCHANGED last
           \/ /\ pool' = [pool EXCEPT !.canvasDB = "nil", !.created.canvas = @ + 1,
                                      !.mutex = 0]
              /\ tasks' = Remove(tasks, i)
              /\ last' = [Blank EXCEPT !.op = t.kind, !.ret = 1, !.fault = "open",
                                       !.handle = "nil"]

\* an initDatabases in which a failure of database.New("/chat") does not stop
\* getCanvasDB from returning the canvas handle with status 0
NewChatLenient(i) ==
    LET t == tasks[i]
    IN  /\ t.pc = "chat"
        /\ UNCHANGED <<canvas, chat, ningest, inbox>>
        /\ \/ /\ pool' = [pool EXCEPT !.chatDB = "open", !.created.chat = @ + 1,
                                      !.assigned.chat = @ + 1]
              /\ tasks' = [tasks EXCEPT ![i].pc = "set"]
              /\ UNCHANGED last
           \/ /\ pool' = [pool EXCEPT !.chatDB = "nil", !.created.chat = @ + 1,
                                      !.mutex = 0]
              /\ tasks' = Remove(tasks, i)
              /\ last' = IF t.kind = "getCanvasDB"
                         THEN [Blank EXCEPT !.op = t.kind, !.ret = 0, !.handle = pool.canvasDB]
                         ELSE [Blank EXCEPT !.op = t.kind, !.ret = 1, !.fault = "open",
                                            !.handle = "nil"]

\* chatDB, err = database.New("/chat"), likewise
NewChat(i) ==
    LET t == tasks[i]
    IN  /\ t.pc = "chat"
        /\ UNCHANGED <<canvas, chat, ningest, inbox>>
        /\ \/ /\ pool' = [pool EXCEPT !.chatDB = "open", !.created.chat = @ + 1,
                                      !.assigned.chat = @ + 1]
              /\ tasks' = [tasks EXCEPT ![i].pc = "set"]
              /\ UNCHANGED last
           \/ /\ pool' = [pool EXCEPT !.chatDB = "nil", !.created.chat = @ + 1,
                                      !.mutex = 0]
              /\ tasks' = Remove(tasks, i)
              /\ last' = [Blank EXCEPT !.op = t.kind, !.ret = 1, !.fault = "open",
                                       !.handle = "nil"]

\* dbInit = true; return 0 with the deferred Unlock; the caller returns its handle
SetInit(i) ==
    LET t == tasks[i]
    IN  /\ t.pc = "set"
        /\ UNCHANGED <<canvas, chat, ningest, inbox>>
        /\ pool' = [pool EXCEPT !.dbInit = TRUE, !.mutex = 0]
        /\ tasks' = Remove(tasks, i)
        /\ last' = [Blank EXCEPT !.op = t.kind, !.ret = 0, !.handle = Handle(t.kind, pool)]

NextPool ==
    \/ \E kind \in {"getCanvasDB", "getChatDB"} : CallGetDB(kind)
    \/ \E i \in DOMAIN tasks : ReadInit(i)
    \/ \E i \in DOMAIN tasks : LockInit(i)
    \/ \E i \in DOMAIN tasks : NewCanvas(i)
    \/ \E i \in DOMAIN tasks : NewChat(i)
    \/ \E i \in DOMAIN tasks : SetInit(i)

SpecPool == InitPool /\ [][NextPool]_vars

(***************************************************************************)
(* C18: whatever the interleaving of the calls and whichever database.New  *)
(* fails, database.New is called at most once for each path and a shared   *)
(* handle, once set, is not assigned again.                                *)
(***************************************************************************)
C18_HandlesCreatedOnce ==
    /\ pool.created.canvas <= 1 /\ pool.created.chat <= 1
    /\ pool.assigned.canvas <= 1 /\ pool.assigned.chat <= 1

\* what the mutex does give: the body of initDatabases runs in one call at a
\* time, the chat handle is assigned at most once, and as long as no
\* database.New has failed each path is opened at most once
C18_OnceWithoutFailure ==
    /\ Cardinality({i \in DOMAIN tasks : tasks[i].pc \in {"canvas", "chat", "set"}}) <= 1
    /\ pool.assigned.chat <= 1
    /\ (pool.created = pool.assigned) => (pool.created.canvas <= 1 /\ pool.created.chat <= 1)

(***************************************************************************)
(* C19: what a detached handler returns depends on decoding alone: it      *)
(* returns 0 for every payload it decodes, opens no database and writes    *)
(* nothing itself, and leaves the write to a goroutine whose failures      *)
(* (or absence) reach no caller.                                           *)
(***************************************************************************)
DetachedStep(l) ==
    \/ l.op = "pixel" /\ l.v = "framed"
    \/ l.op = "chat" /\ l.v = "detached"

\* the status decoding gives for the payload, under either width of int
DecodedStatus(l) ==
    {IF l.op = "pixel" THEN DecodeFramed(l.input, bits).ret
     ELSE DecodeBinaryChat(l.input, bits).ret : bits \in IntWidths}

C19_DetachedStatusFromDecoding ==
    [][DetachedStep(last') =>
          /\ last'.ret \in DecodedStatus(last')
          /\ last'.fault = "none" /\ last'.nput = 0
          /\ UNCHANGED <<canvas, chat, pool>>
          /\ tasks' = IF last'.ret = 0 THEN Append(tasks, tasks'[Len(tasks')]) ELSE tasks]_vars

\* a detached chat handler returns 0 although an earlier open has failed,
\* nothing was stored and the goroutine of an earlier payload has not run
C19_Witness ==
    /\ DetachedStep(last) /\ last.op = "chat" /\ last.ret = 0
    /\ "nil" \in {pool.canvasDB, pool.chatDB} /\ ~pool.dbInit
    /\ Len(tasks) = 2 /\ chat = <<>>

(***************************************************************************)
(* C20: when two ingestion events write one cell of a room, in handlers    *)
(* or in the goroutines of detached handlers, each Put replaces the whole  *)
(* record: the stored record is in full the pixel of the Put that landed   *)
(* last, never a mixture of the two.                                       *)
(***************************************************************************)
\* the pixels the step's event writes
Written(l) == IF l.op = "task" THEN l.pixels ELSE Writable(l.v, l.pixels)

KeyOf(l, p) == PixelKey(l.room, p.x, p.y)

\* the last pixel of the batch that goes to the same key
LastInBatch(l, i) ==
    LET w == Written(l)
        same == {j \in DOMAIN w : KeyOf(l, w[j]) = KeyOf(l, w[i])}
    IN  w[CHOOSE j \in same : \A n \in same : n <= j]

C20_LastPutWins ==
    [][/\ \A k \in DOMAIN canvas' :
              (k \notin DOMAIN canvas \/ canvas'[k] # canvas[k]) =>
                  /\ last'.op \in {"pixel", "task"}
                  /\ \E i \in DOMAIN Written(last') :
                         /\ KeyOf(last', Written(last')[i]) = k
                         /\ canvas'[k] = MarshalPixel(Written(last')[i])
       /\ (last'.op \in {"pixel", "task"} /\ last'.nput > 0 /\ last'.fault = "none") =>
              \A i \in DOMAIN Written(last') :
                  canvas'[KeyOf(last', Written(last')[i])]
                      = MarshalPixel(LastInBatch(last', i))]_vars

\* the synchronous binary handler has written cell (3,4) of "default" while
\* the goroutine of a detached handler, already past getCanvasDB, is about to
\* Put another color there
C20_Witness ==
    /\ last.op = "pixel" /\ last.v = "binary" /\ last.nput = 1 /\ last.fault = "none"
    /\ canvas[KeyOf(last, last.pixels[1])] = MarshalPixel(last.pixels[1])
    /\ \E i \in DOMAIN tasks :
           /\ tasks[i].kind = "pixels" /\ tasks[i].opened
           /\ PixelKey(tasks[i].room, Head(tasks[i].todo).x, Head(tasks[i].todo).y)
                  = KeyOf(last, last.pixels[1])
           /\ Head(tasks[i].todo).color # last.pixels[1].color

(***************************************************************************)
(* SpecChatCodec: a chat message of the sender, encoded in the binary      *)
(* layout and given to the synchronous binary onChatMessages.  The message *)
(* is text, [id, userId, username, message] as characters and an integer   *)
(* timestamp; timestamps stay below 2^31 / 10, the largest the stored      *)
(* document (kept in tenths) can carry here.                               *)
(***************************************************************************)
\* the ASCII code of a character
Ord(c) ==
    CASE IsDigit(c) -> 48 + DigitVal(c)
      [] c = "/" -> 47
      [] c = ":" -> 58
      [] c = " " -> 32
      [] OTHER -> 96 + (CHOOSE i \in 1..26 : Letters[i] = c)

Bytes(text) == [i \in 1..Len(text) |-> Ord(text[i])]

RECURSIVE Join(_)
\* the characters of a text as one string
Join(text) == IF text = <<>> THEN "" ELSE Head(text) \o Join(Tail(text))

\* the layout: four strings each behind its uint32 byte length, then the
\* uint32 timestamp, little-endian
EncodeChat(m) ==
    Prefixed(Bytes(m.id)) \o Prefixed(Bytes(m.userId)) \o Prefixed(Bytes(m.username))
        \o Prefixed(Bytes(m.message)) \o LE32(m.timestamp)

SentMessages ==
    {[id |-> id, userId |-> userId, username |-> username, message |-> message,
      timestamp |-> timestamp] :
        id \in {<<>>, M1, <<"a", "/", "b">>},
        userId \in {<<>>, <<"u", "1">>},
        username \in {<<>>, <<"a", "l", "i", "c", "e">>},
        message \in {<<>>, <<"h", "i">>, <<"a", ":", "b", " ", "c">>},
        timestamp \in {0, 7, 65536, 214748364}}

InitChatCodec ==
    /\ canvas = <<>>
    /\ chat = <<>>
    /\ pool = [dbInit |-> FALSE, canvasDB |-> "unset", chatDB |-> "unset"]
    /\ tasks = <<>>
    /\ last = Blank
    /\ ningest = 0
    /\ inbox \in SentMessages

NextChatCodec == \E bits \in IntWidths : OnChatMessagesBinary(EncodeChat(inbox), bits)

SpecChatCodec == InitChatCodec /\ [][NextChatCodec]_vars

(***************************************************************************)
(* C21: a chat message encoded in the binary layout and given to the       *)
(* binary onChatMessages is decoded, and what is stored is a ChatMessage   *)
(* whose five fields are those of the message that was encoded.            *)
(***************************************************************************)
C21_BinaryChatRoundTrip ==
    (last.op = "chat" /\ last.v = "binary") =>
        /\ last.ret = 0 <=> last.fault = "none"
        /\ last.fault \in {"none", "open", "put"}
        /\ last.msgs = <<ChatMessage(inbox.id, Join(inbox.userId), Join(inbox.username),
                                     Join(inbox.message), inbox.timestamp)>>
        /\ last.fault = "none" =>
               LET key == RoomPrefix(DefaultRoom) \o inbox.id
               IN  /\ key \in DOMAIN chat
                   /\ UnmarshalMessage(chat[key]).ok
                   /\ UnmarshalMessage(chat[key]).message = last.msgs[1]

\* the message "a/b" from u1 (alice), "a:b c" at 65536, is stored
C21_Witness ==
    /\ last.op = "chat" /\ last.v = "binary" /\ last.fault = "none"
    /\ inbox.id = <<"a", "/", "b">> /\ inbox.timestamp = 65536
    /\ inbox.message = <<"a", ":", "b", " ", "c">> /\ inbox.userId # <<>>
    /\ UnmarshalMessage(chat[RoomPrefix(DefaultRoom) \o inbox.id]).message.message = "a:b c"

(***************************************************************************)
(* C22: a JSON pixel batch is stored under the room it carries, "default"  *)
(* when the room is absent or empty or the payload is a bare array, and    *)
(* becomes visible only in queries for that room.                          *)
(***************************************************************************)
\* the room a JSON pixel payload carries for a handler: the "room" of an
\* object, the "r" of a compressed batch where that format is read
DocRoom(v, doc) ==
    CASE doc.t = "arr" -> DefaultRoom
      [] doc.t = "obj" -> RoomOrDefault(doc.room)
      [] doc.t = "cmp" -> IF v = "compressed" THEN RoomOrDefault(doc.r) ELSE DefaultRoom

JsonPixelStep(l) ==
    l.op = "pixel" /\ l.v \in {"backend", "checked", "array", "compressed"} /\ l.ret = 0

C22_StoredAndVisibleInOwnRoom ==
    [][JsonPixelStep(last') =>
          /\ last'.room = DocRoom(last'.v, last'.input)
          /\ \A k \in DOMAIN canvas' :
                 (k \notin DOMAIN canvas \/ canvas'[k] # canvas[k]) =>
                     \E i \in DOMAIN last'.pixels :
                         k = PixelKey(last'.room, last'.pixels[i].x, last'.pixels[i].y)
          /\ \A rp \in QueryRooms : \A v \in CanvasGenerations :
                 (rp.present /\ rp.v # last'.room) =>
                     Views(v, canvas', rp.v) = Views(v, canvas, rp.v)]_vars

(***************************************************************************)
(* SpecClear: clearData step by step, between the steps of other events.   *)
(* A call past its parameter checks, database.New and db.List is a frame   *)
(* in `tasks`, [kind |-> "clear", type, room, before, todo]: `before` is   *)
(* the selected database as db.List saw it, `todo` the listed keys whose   *)
(* db.Delete is still to come.                                             *)
(***************************************************************************)
\* the database a frame works on
Selected(type) == IF type = "canvas" THEN canvas ELSE chat

\* clearData up to and including db.List; parameter, open and list failures
\* end the call at once, as does an empty listing
ClearStart(tp, rp) ==
    LET room == GetRoomParam(rp)
        res == [Blank EXCEPT !.op = "clear", !.v = tp.v, !.room = room,
                             !.input = [type |-> tp, room |-> rp]]
    IN  /\ Len(tasks) = 0
        /\ UNCHANGED <<canvas, chat, pool, ningest, inbox>>
        /\ IF ~ValidType(tp)
           THEN /\ last' = [res EXCEPT !.ret = 1, !.code = 400, !.body = "error"]
                /\ UNCHANGED tasks
           ELSE LET db == Selected(tp.v)
                    keys == List(db, RoomPrefix(room))
                    done == [res EXCEPT !.code = 200, !.body = "text", !.before = db]
                IN  \/ /\ last' = [res EXCEPT !.ret = 1, !.code = 500, !.body = "error",
                                              !.fault = "open"]
                       /\ UNCHANGED tasks
                    \/ /\ last' = [done EXCEPT !.fault = "list"]
                       /\ UNCHANGED tasks
                    \/ /\ keys = {}
                       /\ last' = done
                       /\ UNCHANGED tasks
                    \/ /\ keys # {}
                       /\ last' = [res EXCEPT !.before = db]
                       /\ tasks' = Append(tasks, [kind |-> "clear", type |-> tp.v,
                                                  room |-> room, before |-> db,
                                                  todo |-> keys])

\* a step that deletes whatever is under the room now
ClearSweepStep(i) ==
    LET t == tasks[i]
        res == [Blank EXCEPT !.op = "clear", !.v = t.type, !.room = t.room,
                             !.before = t.before, !.nput = 1]
        keys == List(Selected(t.type), RoomPrefix(t.room))
    IN  /\ t.kind = "clear" /\ t.todo # {}
        /\ UNCHANGED <<pool, ningest, inbox>>
        /\ last' = res
        /\ tasks' = [tasks EXCEPT ![i].todo = {}]
        /\ IF t.type = "canvas"
           THEN canvas' = DeleteAll(canvas, keys) /\ UNCHANGED chat
           ELSE chat' = DeleteAll(chat, keys) /\ UNCHANGED canvas

\* one db.Delete(key) of the loop over the listed keys, its error ignored;
\* db.List promises no order
ClearDeleteStep(i) ==
    LET t == tasks[i]
        res == [Blank EXCEPT !.op = "clear", !.v = t.type, !.room = t.room,
                             !.before = t.before, !.nput = 1]
    IN  /\ t.kind = "clear" /\ t.todo # {}
        /\ UNCHANGED <<pool, ningest, inbox>>
        /\ \E k \in t.todo : \E ok \in BOOLEAN :
               /\ tasks' = [tasks EXCEPT ![i].todo = @ \ {k}]
               /\ last' = [res EXCEPT !.failed = IF ok THEN {} ELSE {k},
                                      !.fault = IF ok THEN "none" ELSE "delete"]
               /\ IF ~ok THEN UNCHANGED <<canvas, chat>>
                  ELSE IF t.type = "canvas"
                  THEN canvas' = DeleteAll(canvas, {k}) /\ UNCHANGED chat
                  ELSE chat' = DeleteAll(chat, {k}) /\ UNCHANGED canvas

\* after the loop: h.Write(successMsg); h.Return(200); return 0
ClearReturn(i) ==
    LET t == tasks[i]
    IN  /\ t.kind = "clear" /\ t.todo = {}
        /\ UNCHANGED <<canvas, chat, pool, ningest, inbox>>
        /\ tasks' = Remove(tasks, i)
        /\ last' = [Blank EXCEPT !.op = "clear", !.v = t.type, !.room = t.room,
                                 !.before = t.before, !.code = 200, !.body = "text"]

PG == JPixel(20, 10, Green, "u2", "bob")          \* (2,1), another color
PH == JPixel(50, 60, Green, "u2", "bob")          \* (5,6)

ClearDocs == {JObj(<<PA, PF>>, RoomA), JObj(<<PG>>, RoomA), JObj(<<PH>>, RoomA)}

NextClear ==
    \/ \E doc \in ClearDocs : OnPixelUpdateSync("checked", doc, 64)
    \/ \E doc \in {JChat(M1, "u1", "alice", "hello", 20, RoomA)} : OnChatMessages("checked", doc)
    \/ GetCanvas("checked", Param(RoomA))
    \/ GetMessages("checked", Param(RoomA))
    \/ \E tp \in {Param("canvas"), Param("chat"), NoParam} : ClearStart(tp, Param(RoomA))
    \/ \E i \in DOMAIN tasks : ClearDeleteStep(i)
    \/ \E i \in DOMAIN tasks : ClearReturn(i)

SpecClear == Init /\ [][NextClear]_vars

\* the database of a frame after the step
SelectedAfter(type) == IF type = "canvas" THEN canvas' ELSE chat'

\* a step of a clearData call that is past db.List
ClearStep(l) == l.op = "clear" /\ l.nput = 1

\* the keys db.List returned to the call
Listed(l) == List(l.before, RoomPrefix(l.room))

\* C23 as written, part (a): a record put under the room after the list
\* step is never removed by the clear, so it is in the store at the 200.
C23_LaterPutsSurvive ==
    [][ClearStep(last') =>
          \A k \in DOMAIN Selected(last'.v) :
              k \notin DOMAIN SelectedAfter(last'.v) => Selected(last'.v)[k] = last'.before[k]]_vars

\* C23: clearData is not atomic.  It lists the room's keys once; each later
\* step deletes at most one of the listed keys and nothing else, so a record
\* put after the list step under a key that was not listed is never removed
\* by the clear, while one put under a listed key is deleted with it; the
\* other database is not touched.
C23_ClearDeletesListedKeysOneByOne ==
    [][ClearStep(last') =>
          LET db == Selected(last'.v)
              after == SelectedAfter(last'.v)
              gone == DOMAIN db \ DOMAIN after
          IN  /\ gone \subseteq Listed(last')
              /\ Cardinality(gone) <= 1
              /\ \A k \in DOMAIN after : k \in DOMAIN db /\ after[k] = db[k]
              /\ (last'.v = "canvas" => chat' = chat)
              /\ (last'.v = "chat" => canvas' = canvas)]_vars

\* C23 witness: a getCanvas between two deletes of a clear of its room shows
\* a listed cell that is still there, another listed cell is already gone,
\* and a record put after the list step is in the store.
C23_Witness ==
    /\ last.op = "getCanvas" /\ last.code = 200
    /\ \E i \in DOMAIN tasks :
          LET t == tasks[i]
              listed == List(t.before, RoomPrefix(t.room))
          IN  /\ t.kind = "clear" /\ t.type = "canvas" /\ t.room = last.room
              /\ last.fault = "none" /\ last.failed = {}
              /\ \E k \in listed : /\ k \notin DOMAIN canvas
                                   /\ RowCol(k, t.room) \notin DOMAIN last.grid.cells
              /\ \E k \in listed : /\ k \in t.todo /\ k \in DOMAIN canvas
                                   /\ RowCol(k, t.room) \in DOMAIN last.grid.cells
              /\ \E k \in List(canvas, RoomPrefix(t.room)) : k \notin listed

\* C24: in the binary decoders no declared length or count, whatever its
\* uint32 value and whatever the width of int, leads past its bounds check
\* into a slice or index expression that panics.
C24_DeclaredLengthsNeverPanic ==
    (last.v \in {"binary", "detached"} /\ last.op # "none") => last.ret # -1

(***************************************************************************)
(* SpecPut: the synchronous ingestion handlers with batches of several     *)
(* pixels, some Puts failing.                                              *)
(***************************************************************************)
PutDocs == {JObj(<<PA, PH, PG>>, RoomA), JObj(<<PG, PA>>, RoomA)}

PutBuffers == {LE32(2) \o Rec(3, 4, <<0, 255, 0, 0>>) \o Rec(3, 4, <<255, 0, 0, 0>>)}

NextPut ==
    \/ \E v \in {"backend", "checked", "array", "compressed"} : \E doc \in PutDocs :
           OnPixelUpdateSync(v, doc, 64)
    \/ \E data \in PutBuffers : \E bits \in IntWidths : OnPixelUpdateSync("binary", data, bits)
    \/ \E v \in ChatGenerations :
           \E doc \in {JChat(M1, "u1", "alice", "hello", 20, RoomA)} : OnChatMessages(v, doc)
    \/ \E data \in ChatBuffers : \E bits \in IntWidths : OnChatMessagesBinary(data, bits)

SpecPut == Init /\ [][NextPut]_vars

\* a step of a synchronous ingestion handler in which a Put failed
PutFailed(l) == l.op \in {"pixel", "chat"} /\ l.fault = "put"

\* the Puts of the batch that succeeded for the key k, by position
Succeeded(l, w, k) ==
    {i \in DOMAIN w : i \notin l.failed /\ PixelKey(l.room, w[i].x, w[i].y) = k}

\* C25 as written: after a failed Put every synchronous ingestion handler
\* still returns 0.
C25_PutFailureNeverReported == PutFailed(last) => last.ret = 0

\* C25: a failed Put is not reflected in the status of a synchronous
\* ingestion handler, which returns 0, except in the binary chat handler,
\* which returns 1; the failed record is not written, and of a pixel batch
\* every other pixel is still put: each key holds the last pixel of the
\* batch whose Put succeeded, or what it held before.
C25_FailedPutSkipsOneRecord ==
    [][PutFailed(last') =>
          /\ last'.ret = IF last'.op = "chat" /\ last'.v = "binary" THEN 1 ELSE 0
          /\ last'.op = "chat" => chat' = chat /\ canvas' = canvas
          /\ last'.op = "pixel" =>
                LET w == Writable(last'.v, last'.pixels)
                    keys == DOMAIN canvas \cup
                            {PixelKey(last'.room, w[i].x, w[i].y) : i \in DOMAIN w}
                IN  /\ chat' = chat
                    /\ last'.nput = Len(w)
                    /\ last'.failed # {} /\ last'.failed \subseteq DOMAIN w
                    /\ DOMAIN canvas' \subseteq keys
                    /\ \A k \in keys :
                          LET done == Succeeded(last', w, k)
                          IN  IF done = {}
                              THEN (k \in DOMAIN canvas' <=> k \in DOMAIN canvas)
                                   /\ (k \in DOMAIN canvas => canvas'[k] = canvas[k])
                              ELSE /\ k \in DOMAIN canvas'
                                   /\ canvas'[k] = MarshalPixel(
                                        w[CHOOSE i \in done : \A j \in done : j <= i])]_vars

\* C25 witness: a batch of three pixels whose first Put failed, the other
\* two records written, status 0.
C25_Witness ==
    /\ last.op = "pixel" /\ last.fault = "put" /\ last.ret = 0
    /\ Len(last.pixels) = 3 /\ last.failed = {1}
    /\ \A i \in {2, 3} :
          LET k == PixelKey(last.room, last.pixels[i].x, last.pixels[i].y)
          IN  k \in DOMAIN canvas /\ canvas[k] = MarshalPixel(last.pixels[i])

(***************************************************************************)
(* SpecRooms: ingests into rooms whose names extend one another, and the   *)
(* two queries.                                                            *)
(***************************************************************************)
RoomAB == <<"a", "/", "b">>

RoomDocs == {JObj(<<PA>>, RoomA), JObj(<<PF>>, RoomA21), JObj(<<PH>>, RoomAB)}

RoomChatDocs == {JChat(M1, "u1", "alice", "hello", 20, RoomA),
                 JChat(M2, "u2", "bob", "hi", 10, RoomAB)}

Rooms == {RoomA, RoomA21, RoomAB}

NextRooms ==
    \/ \E v \in {"checked", "compressed"} : \E doc \in RoomDocs : OnPixelUpdateSync(v, doc, 64)
    \/ \E v \in {"checked", "pooled"} : \E doc \in RoomChatDocs : OnChatMessages(v, doc)
    \/ \E room \in Rooms : GetCanvas("pooled", Param(room))
    \/ \E room \in Rooms : GetMessages("pooled", Param(room))

SpecRooms == Init /\ [][NextRooms]_vars

\* what a getCanvas of the room can answer from the database
CanvasResults(db, room) == Views("pooled", db, room)

\* what a getMessages of the room can answer from the database
MessageResults(db, room) ==
    Collected(db, {k \in List(db, RoomPrefix(room)) : Len(k) > Len(RoomPrefix(room))})

\* C26: room isolation of the queries.  An ingest of pixels or of a chat
\* message into a room R' leaves what getCanvas(R) and getMessages(R) answer
\* unchanged for every other room R, whatever characters the names hold.
C26_QueriesIsolated ==
    [][(last'.op \in {"pixel", "chat"} /\ last'.ret = 0) =>
          \A room \in Rooms \ {last'.room} :
              /\ CanvasResults(canvas', room) = CanvasResults(canvas, room)
              /\ MessageResults(chat', room) = MessageResults(chat, room)]_vars

\* every key of the canvas database is "/{room}/{x}:{y}" for the x and y of
\* the record under it, and no two keys hold the same (room, x, y)
KeysMatchRecords ==
    /\ \A k \in DOMAIN canvas :
          /\ UnmarshalPixel(canvas[k]).ok
          /\ canvas[k].x10 = Stored(canvas, k).x * 10
          /\ canvas[k].y10 = Stored(canvas, k).y * 10
          /\ k = <<"/">> \o RoomOfKey(k) \o <<"/">> \o FormatInt(Stored(canvas, k).x)
                     \o <<":">> \o FormatInt(Stored(canvas, k).y)
    /\ \A k1, k2 \in DOMAIN canvas :
          (/\ RoomOfKey(k1) = RoomOfKey(k2)
           /\ Stored(canvas, k1).x = Stored(canvas, k2).x
           /\ Stored(canvas, k1).y = Stored(canvas, k2).y) => k1 = k2

\* a synchronous pixel ingest whose Puts all succeeded
PixelsSaved(l) == l.op = "pixel" /\ l.v # "framed" /\ l.ret = 0 /\ l.nput > 0 /\ l.fault = "none"

\* C27: the canvas store invariant.  Every key has the form
\* "/{room}/{x}:{y}" with the x and y of the Pixel stored under it, so there
\* is at most one record per (room, x, y); an ingest whose Puts succeed
\* leaves, for every cell it writes, the record of the last pixel of the
\* batch for that cell under the key of that cell in the batch's room,
\* whatever was there before.
C27_CanvasStoreInvariant ==
    /\ [](KeysMatchRecords)
    /\ [][PixelsSaved(last') =>
             LET w == Writable(last'.v, last'.pixels)
             IN  \A i \in DOMAIN w :
                    LastForCell(w, i) =>
                        LET k == <<"/">> \o last'.room \o <<"/">> \o FormatInt(w[i].x)
                                     \o <<":">> \o FormatInt(w[i].y)
                        IN  /\ k \in DOMAIN canvas'
                            /\ Stored(canvas', k) = w[i]
                            /\ RoomOfKey(k) = last'.room]_vars

\* C27 witness: a batch that named cell (2,1) of room "a" twice has been
\* saved over an earlier record of the cell; the cell's one record is the
\* second pixel of the batch.
C27_Witness ==
    /\ PixelsSaved(last) /\ ningest = 2
    /\ Len(last.pixels) = 2 /\ last.room = RoomA
    /\ last.pixels[1].x = 2 /\ last.pixels[1].y = 1
    /\ last.pixels[2].x = 2 /\ last.pixels[2].y = 1
    /\ last.pixels[1].color # last.pixels[2].color
    /\ Stored(canvas, PixelKey(RoomA, 2, 1)) = last.pixels[2]
    /\ Cardinality({k \in DOMAIN canvas : RoomOfKey(k) = RoomA /\ Stored(canvas, k).x = 2
                                          /\ Stored(canvas, k).y = 1}) = 1

(***************************************************************************)
(* SpecDetachedFair: the detached pixel handler with a store that opens    *)
(* and takes every Put, its goroutines scheduled fairly.                   *)
(***************************************************************************)
\* batch id "x"; (3,4) green and (5,6) red / (3,4) red and (90,0) green
LiveFrames ==
    {LE32(1) \o <<120>> \o LE32(2) \o Rec(3, 4, <<0, 255, 0, 0>>) \o Rec(5, 6, <<0, 0, 255, 0>>),
     LE32(1) \o <<120>> \o LE32(2) \o Rec(3, 4, <<0, 0, 255, 0>>) \o Rec(90, 0, <<0, 255, 0, 0>>),
     <<1, 0>>}

\* a step of a goroutine in which getCanvasDB and db.Put succeed
WriterRuns == \E i \in DOMAIN tasks : PixelWriterStep(i) /\ last'.fault = "none"

NextDetachedFair ==
    \/ \E data \in LiveFrames : \E bits \in IntWidths : OnPixelUpdateDetached(data, bits)
    \/ WriterRuns
    \/ GetCanvas("pooled", Param(DefaultRoom))

SpecDetachedFair == Init /\ [][NextDetachedFair]_vars /\ WF_vars(WriterRuns)

\* the in-range pixels of the frames
LivePixels ==
    {p \in UNION {{DecodeFramed(data, 64).pixels[i] : i \in DOMAIN DecodeFramed(data, 64).pixels} :
                     data \in LiveFrames} : InBounds(p.x, p.y)}

\* the detached handler has just returned 0 for a batch that holds p
Returned(p) ==
    /\ last.op = "pixel" /\ last.v = "framed" /\ last.ret = 0
    /\ \E i \in DOMAIN last.pixels : last.pixels[i] = p

\* the record of p is in the store under its key
Present(p) ==
    /\ PixelKey(DefaultRoom, p.x, p.y) \in DOMAIN canvas
    /\ Stored(canvas, PixelKey(DefaultRoom, p.x, p.y)) = p

\* C28: in the detached variant, with a store that opens and accepts every
\* Put and goroutines that are scheduled fairly, each in-range pixel of a
\* batch the handler returned 0 for is eventually in the store.
C28_DetachedPixelsEventuallyStored ==
    \A p \in LivePixels : Returned(p) ~> Present(p)

\* C28 witness: the handler has returned 0 for a batch with a red (3,4)
\* whose goroutine has not run yet, and a getCanvas of the room still
\* answers the green that an earlier batch stored there.
C28_Witness ==
    /\ last.op = "getCanvas" /\ last.code = 200 /\ last.fault = "none"
    /\ \E i \in DOMAIN tasks :
          /\ tasks[i].kind = "pixels" /\ ~tasks[i].opened /\ tasks[i].room = last.room
          /\ \E j \in DOMAIN tasks[i].todo :
                /\ tasks[i].todo[j].x = 3 /\ tasks[i].todo[j].y = 4
                /\ tasks[i].todo[j].color = Hex6(255, 0, 0)
    /\ Cell(last.grid, 3, 4) = Hex6(0, 255, 0)

\* the step ends the call of frame i
Ends(i) == Len(tasks') = Len(tasks) - 1 /\ tasks' = Remove(tasks, i)

\* C29: getCanvasDB and getChatDB return status 0 only when both
\* database.New("/canvas") and database.New("/chat") have succeeded: dbInit
\* is true and both handles are set.  A call in which the chat database
\* fails to open returns 1 whichever handle it was asked for, with dbInit
\* left false, and every call that returns 1 has run initDatabases itself,
\* database.New("/canvas") included.
C29_StatusZeroNeedsBothDatabases ==
    /\ []((last.op \in {"getCanvasDB", "getChatDB"} /\ last.ret = 0) =>
             pool.dbInit /\ pool.canvasDB = "open" /\ pool.chatDB = "open")
    /\ [](pool.dbInit => pool.canvasDB = "open" /\ pool.chatDB = "open")
    /\ [](pool.created.chat <= pool.created.canvas)
    /\ [][\A i \in DOMAIN tasks :
             Ends(i) =>
                 /\ last'.op = tasks[i].kind
                 /\ pool'.created.chat > pool.created.chat =>
                        (last'.ret = 1 <=> pool'.chatDB = "nil")
                 /\ last'.ret = 1 =>
                        /\ ~pool'.dbInit
                        /\ tasks[i].pc \in {"canvas", "chat"}
                        /\ pool'.created.canvas + pool'.created.chat
                              = pool.created.canvas + pool.created.chat + 1
                        /\ tasks[i].pc = "chat" => pool.canvasDB = "open"]_vars

\* C29 witness: a second getCanvasDB has failed because the chat database
\* did not open again; it had opened the canvas database once more before.
C29_Witness ==
    /\ last.op = "getCanvasDB" /\ last.ret = 1
    /\ pool.canvasDB = "open" /\ pool.chatDB = "nil" /\ ~pool.dbInit
    /\ pool.created.canvas = 2 /\ pool.created.chat = 2

(***************************************************************************)
(* SpecClearData: clearData in one piece over both databases, each holding *)
(* records of more than one room.                                          *)
(***************************************************************************)
NextClearData ==
    \/ \E doc \in {JObj(<<PA, PF>>, RoomA), JObj(<<PH>>, RoomAB)} :
           OnPixelUpdateSync("checked", doc, 64)
    \/ \E doc \in RoomChatDocs : OnChatMessages("checked", doc)
    \/ \E tp \in {Param("canvas"), Param("chat"), Param("bogus"), NoParam} :
           \E rp \in {Param(RoomA), Param(RoomAB), NoParam} : ClearData(tp, rp)

SpecClearData == Init /\ [][NextClearData]_vars

\* a clearData request handled in one step
ClearRequest(l) == l.op = "clear" /\ l.nput = 0 /\ l.code # 0

\* C30: clearData answers 200 and returns 0 exactly when `type` is "canvas"
\* or "chat" and the database opened, whether or not db.List or a db.Delete
\* failed.  When db.List failed every key is still in the store; otherwise
\* the keys of the room whose Delete failed, and no others of the room,
\* remain; the records outside the listing and the database that `type` did
\* not select are as they were.
C30_ClearReportsSuccessDespiteFailures ==
    [][ClearRequest(last') =>
          LET tp == last'.input.type
              valid == tp.present /\ tp.v \in {"canvas", "chat"}
              db == IF valid /\ tp.v = "canvas" THEN canvas ELSE chat
              after == IF valid /\ tp.v = "canvas" THEN canvas' ELSE chat'
              keys == {k \in DOMAIN db : HasPrefix(k, RoomPrefix(last'.room))}
          IN  /\ (last'.code = 200 /\ last'.ret = 0) <=> (valid /\ last'.fault # "open")
              /\ last'.code # 200 => canvas' = canvas /\ chat' = chat /\ last'.ret = 1
              /\ last'.code = 200 =>
                    /\ tp.v = "canvas" => chat' = chat
                    /\ tp.v = "chat" => canvas' = canvas
                    /\ last'.fault \in {"none", "list", "delete"}
                    /\ last'.fault = "list" => after = db
                    /\ last'.fault = "delete" <=> last'.failed # {}
                    /\ last'.fault # "list" =>
                          /\ last'.failed \subseteq keys
                          /\ DOMAIN after = (DOMAIN db \ keys) \cup last'.failed
                    /\ \A k \in DOMAIN after : after[k] = db[k]]_vars

\* C30 witness: a clearData of the canvas of room "a" answered 200 although
\* one Delete failed; that record is still in the store, another record of
\* the room is gone.
C30_Witness ==
    /\ ClearRequest(last) /\ last.v = "canvas" /\ last.code = 200 /\ last.ret = 0
    /\ last.fault = "delete"
    /\ \E k \in last.failed : k \in DOMAIN canvas /\ canvas[k] = last.before[k]
    /\ \E k \in DOMAIN last.before : HasPrefix(k, RoomPrefix(last.room)) /\ k \notin DOMAIN canvas
    /\ chat # <<>>

====
